---- MODULE Spec2Model ----
(***************************************************************************)
(* Particle force / integration engine of RajDaBest/Physics-Engine.        *)
(*                                                                         *)
(* Two header families are modelled, selected by the variable `build`:     *)
(*   "particle_h" : src/src/particle.h (single-step integrator with the    *)
(*                  spring cache in SpringParameters)                      *)
(*   "euler"      : particle_common/forces/addForces + the sub-stepped     *)
(*                  Euler integrator (src/unnamed/part_003, RK4 undefined) *)
(*   "rk4"        : the same headers built with RK4 defined                *)
(*                                                                         *)
(* `real` (float) values are held on a fixed-point grid: the integer r     *)
(* stands for the real r / UNIT.  Products and quotients are truncated     *)
(* toward zero to the grid; 0/0 yields NaN, which propagates.              *)
(***************************************************************************)
EXTENDS Integers, Sequences, FiniteSets, TLC

\* ------------------------------------------------------------------ reals

\* grid of the `real` type: r stands for r / UNIT
UNIT == 1000

\* INFINITY of <math.h>; only ever compared against or inverted
Inf == 1000000

\* the float NaN produced by 0.0 / 0.0
NaN == 2000000

NULL == "NULL"

\* statement sequencing: e is evaluated once, then F is applied to its value
Then(e, F(_)) == CHOOSE r \in {F(x) : x \in {e}} : TRUE

Abs(a) == IF a < 0 THEN -a ELSE a

\* integer quotient truncated toward zero (b # 0)
TDiv(a, b) ==
    LET q == Abs(a) \div Abs(b)
    IN  IF (a < 0) # (b < 0) THEN -q ELSE q

RAdd(a, b) == IF a = NaN \/ b = NaN THEN NaN ELSE a + b

RNeg(a) == IF a = NaN THEN NaN ELSE -a

RSub(a, b) == RAdd(a, RNeg(b))

\* product of two reals of the grid
RMul(a, b) == IF a = NaN \/ b = NaN THEN NaN ELSE TDiv(a * b, UNIT)

\* quotient of two reals of the grid; x / INFINITY = 0, 0 / 0 = NaN
RDiv(a, b) ==
    IF a = NaN \/ b = NaN THEN NaN
    ELSE IF b = Inf THEN 0
    ELSE IF b = 0 THEN (IF a = 0 THEN NaN ELSE IF a > 0 THEN Inf ELSE -Inf)
    ELSE TDiv(a * UNIT, b)

\* comparisons of floats: every comparison with NaN is false
RLt(a, b) == a # NaN /\ b # NaN /\ a < b
RLe(a, b) == a # NaN /\ b # NaN /\ a <= b
RGt(a, b) == RLt(b, a)
RGe(a, b) == RLe(b, a)

\* A scalar factor kept exactly as the fraction n / d (d > 0); it is rounded
\* to the grid only when it multiplies a stored real.
Frac(n, d) == [n |-> n, d |-> d]

RECURSIVE GCD(_, _)
GCD(a, b) == IF b = 0 THEN a ELSE GCD(b, a % b)

\* the fraction n / d in lowest terms
Reduced(n, d) ==
    LET g == GCD(Abs(n), d)
    IN  Frac(TDiv(n, g), d \div g)

\* the stored real r as a factor
R(r) == Frac(r, UNIT)

\* the mass itself where its inverse is wanted
Recip_Forgotten(r) == IF r = Inf THEN Frac(0, 1) ELSE Reduced(r, UNIT)

\* 1.0 / r as a factor (r > 0 on the grid, or INFINITY)
Recip(r) == IF r = Inf THEN Frac(0, 1) ELSE Reduced(UNIT, r)

\* real x times factor f
FMul(x, f) == IF x = NaN \/ f.n = NaN THEN NaN ELSE TDiv(x * f.n, f.d)

\* product of a factor and a stored real, as a factor
FTimes(f, r) ==
    IF f.n = NaN \/ r = NaN THEN Frac(NaN, 1) ELSE Reduced(f.n * r, f.d * UNIT)

\* floor of the square root of n >= 0
RECURSIVE SqrtSearch(_, _, _)
SqrtSearch(n, lo, hi) ==
    IF lo >= hi THEN lo
    ELSE LET mid == (lo + hi + 1) \div 2
         IN  IF mid * mid <= n THEN SqrtSearch(n, mid, hi)
             ELSE SqrtSearch(n, lo, mid - 1)

real_sqrt(n) == SqrtSearch(n, 0, 46340)

\* ---------------------------------------------------------------- vectors

vectorDef(vx, vy, vz) == [x |-> vx, y |-> vy, z |-> vz]

nullVectorDef == vectorDef(0, 0, 0)

IsNaNVec(v) == v.x = NaN \/ v.y = NaN \/ v.z = NaN

\* sqrt(x*x + y*y + z*z); the argument holds grid values, so does the result
magnitude(v) ==
    IF IsNaNVec(v) THEN NaN
    ELSE real_sqrt(v.x * v.x + v.y * v.y + v.z * v.z)

dotProduct(a, b) ==
    RAdd(RAdd(RMul(a.x, b.x), RMul(a.y, b.y)), RMul(a.z, b.z))

invert(v) == vectorDef(RNeg(v.x), RNeg(v.y), RNeg(v.z))

\* scale by the factor f
scale(v, f) == vectorDef(FMul(v.x, f), FMul(v.y, f), FMul(v.z, f))

normalize(v) ==
    LET mag == magnitude(v)
    IN  IF RGt(mag, 0) THEN scale(v, Recip(mag)) ELSE v

vecAdd(dest, src) ==
    vectorDef(RAdd(dest.x, src.x), RAdd(dest.y, src.y), RAdd(dest.z, src.z))

\* the two scalars taken the other way round
addScaled_Swapped(dest, src, scalarOne, scalarTwo) ==
    vecAdd(scale(dest, scalarTwo), scale(src, scalarOne))

\* dest = dest * scalarOne + src * scalarTwo
addScaled(dest, src, scalarOne, scalarTwo) ==
    vecAdd(scale(dest, scalarOne), scale(src, scalarTwo))

\* ------------------------------------------------------------- constants

N_STEPS == 100

\* -9.81 on the grid
ACC_DUE_TO_GRAV == -9810

\* the speed 0.01 below which drag is zero, on the grid
DRAG_DEADZONE == 10

INITIAL_CAPACITY == 8

\* enum ForceIdentifier
GRAV == 1
DRAG == 2
SPRING == 3
ANCHORED_SPRING == 4
BUNGEE == 5
TOTAL_TYPES == 6
ANCHORED_BUNGEE == 7

Builds == {"particle_h", "euler", "rk4"}

\* the addresses malloc hands out for particles
PIDs == {"p1", "p2"}

\* parameter blocks owned by the caller
BlockRefs == {"drag", "spring", "bungee", "anchor"}

\* memory a builder has not written yet
Unbuilt == [built |-> FALSE]

VARIABLES
    build,       \* which headers / integrator the program is built from
    particles,   \* the heap: PIDs -> Particle record, or Unallocated
    blocks,      \* BlockRefs -> parameter block
    particleErrno,
    ret,         \* the last API call that returned, with its arguments and result
    calls,       \* the Particle_Integrate calls that returned success, in order
    birth,       \* the heap as the set-up of the behaviour left it
    ops,         \* how many construction and registration calls were made
    driver       \* the threads of a driver: where each is, what it works on

vars == <<build, particles, blocks, particleErrno, ret, calls, birth, ops, driver>>

\* no driver is running: the calls are made one after the other
NoDriver == [kind |-> "none"]

\* ------------------------------------------------------------- accessors

Particle_IsStatic(particle) == particle.inverseMass.n = 0

\* 1.0 / inverseMass, or INFINITY
Particle_GetMass(particle) ==
    IF particle.inverseMass.n # 0
    THEN TDiv(particle.inverseMass.d * UNIT, particle.inverseMass.n)
    ELSE Inf

\* ------------------------------------------------------------ force laws
\* Each law reads the heap (ps: particles, bs: blocks) through the pointers
\* it is given and returns [force, err]; err is the value it stores in
\* particleErrno, or "keep" when it returns without storing one.

Law(force, err) == [force |-> force, err |-> err]

Particle_GravityForce(ps, bs, p, prm) ==
    IF p = NULL \/ Particle_IsStatic(ps[p])
    THEN Law(nullVectorDef, "INVALID_PARAM")
    ELSE Law(vectorDef(0, RMul(ACC_DUE_TO_GRAV, Particle_GetMass(ps[p])), 0), "SUCCESS")

Particle_DragForce_NoDeadzone(ps, bs, p, prm) ==
    IF p = NULL \/ prm = NULL
    THEN Law(nullVectorDef, "INVALID_PARAM")
    ELSE LET coeffs == bs[prm]
             velocity == ps[p].velocity
             velocityMag == magnitude(velocity)
             dragMagnitude == RAdd(RMul(coeffs.linear, velocityMag),
                                   RMul(RMul(coeffs.quadratic, velocityMag), velocityMag))
         IN  Law(scale(invert(normalize(velocity)), R(dragMagnitude)), "SUCCESS")

Particle_DragForce(ps, bs, p, prm) ==
    IF p = NULL \/ prm = NULL
    THEN Law(nullVectorDef, "INVALID_PARAM")
    ELSE LET coeffs == bs[prm]
             velocity == ps[p].velocity
             velocityMag == magnitude(velocity)
             dragMagnitude == RAdd(RMul(coeffs.linear, velocityMag),
                                   RMul(RMul(coeffs.quadratic, velocityMag), velocityMag))
         IN  IF RLt(velocityMag, DRAG_DEADZONE)
             THEN Law(nullVectorDef, "keep")
             ELSE Law(scale(invert(normalize(velocity)), R(dragMagnitude)), "SUCCESS")

\* the participant of the block that the law takes as the other end
SpringOther(ps, param, p) ==
    IF ps[param.particleA].uniqueID = ps[p].uniqueID
    THEN param.particleB
    ELSE param.particleA

\* -k * (|d| - restLength) - c * (d . relVel / |d|), along d
SpringMagnitude(param, d, relVel) ==
    RSub(RMul(RNeg(param.springConstant), RSub(magnitude(d), param.restLength)),
         RMul(param.dampingCoeff, RDiv(dotProduct(d, relVel), magnitude(d))))

Particle_SpringForce(ps, bs, p, prm) ==
    IF p = NULL \/ prm = NULL
    THEN Law(nullVectorDef, "INVALID_PARAM")
    ELSE LET param == bs[prm]
             other == SpringOther(ps, param, p)
             otherPos == invert(ps[other].position)
             otherVel == invert(ps[other].velocity)
             partVel == vecAdd(ps[p].velocity, otherVel)
             force == vecAdd(ps[p].position, otherPos)
             forceMagnitude == SpringMagnitude(param, force, partVel)
         IN  Law(scale(normalize(force), R(forceMagnitude)), "SUCCESS")

Particle_AnchoredSpringForce(ps, bs, p, prm) ==
    IF p = NULL \/ prm = NULL
    THEN Law(nullVectorDef, "INVALID_PARAM")
    ELSE LET params == bs[prm]
             anchorPos == invert(params.anchor)
             force == vecAdd(ps[p].position, anchorPos)
             forceMagnitude == SpringMagnitude(params, force, ps[p].velocity)
         IN  Law(scale(normalize(force), R(forceMagnitude)), "SUCCESS")

Particle_ElasticBungeeForce_Strict(ps, bs, p, prm) ==
    IF p = NULL \/ prm = NULL
    THEN Law(nullVectorDef, "INVALID_PARAM")
    ELSE LET param == bs[prm]
             other == SpringOther(ps, param, p)
             partVel == vecAdd(ps[p].velocity, invert(ps[other].velocity))
             force == vecAdd(ps[p].position, invert(ps[other].position))
             newLen == RSub(magnitude(force), param.restLength)
             forceMagnitude == SpringMagnitude(param, force, partVel)
         IN  IF RLt(newLen, 0)
             THEN Law(nullVectorDef, "keep")
             ELSE Law(scale(normalize(force), R(forceMagnitude)), "SUCCESS")

Particle_ElasticBungeeForce(ps, bs, p, prm) ==
    IF p = NULL \/ prm = NULL
    THEN Law(nullVectorDef, "INVALID_PARAM")
    ELSE LET param == bs[prm]
             other == SpringOther(ps, param, p)
             otherPos == invert(ps[other].position)
             otherVel == invert(ps[other].velocity)
             partVel == vecAdd(ps[p].velocity, otherVel)
             force == vecAdd(ps[p].position, otherPos)
             newLen == RSub(magnitude(force), param.restLength)
             forceMagnitude == SpringMagnitude(param, force, partVel)
         IN  IF RLe(newLen, 0)
             THEN Law(nullVectorDef, "keep")
             ELSE Law(scale(normalize(force), R(forceMagnitude)), "SUCCESS")

Particle_AnchoredBungeeForce(ps, bs, p, prm) ==
    IF p = NULL \/ prm = NULL
    THEN Law(nullVectorDef, "INVALID_PARAM")
    ELSE LET params == bs[prm]
             anchorPos == invert(params.anchor)
             force == vecAdd(ps[p].position, anchorPos)
             extension == RSub(magnitude(force), params.restLength)
             forceMagnitude == SpringMagnitude(params, force, ps[p].velocity)
         IN  IF RLe(extension, 0)
             THEN Law(nullVectorDef, "keep")
             ELSE Law(scale(normalize(force), R(forceMagnitude)), "SUCCESS")

\* the call generator->function(particle, generator->parameters)
CallForce(fn, ps, bs, p, prm) ==
    CASE fn = "Particle_GravityForce"        -> Particle_GravityForce(ps, bs, p, prm)
      [] fn = "Particle_DragForce"           -> Particle_DragForce(ps, bs, p, prm)
      [] fn = "Particle_SpringForce"         -> Particle_SpringForce(ps, bs, p, prm)
      [] fn = "Particle_AnchoredSpringForce" -> Particle_AnchoredSpringForce(ps, bs, p, prm)
      [] fn = "Particle_ElasticBungeeForce"  -> Particle_ElasticBungeeForce(ps, bs, p, prm)
      [] fn = "Particle_AnchoredBungeeForce" -> Particle_AnchoredBungeeForce(ps, bs, p, prm)

\* --------------------------------------------------- particle construction

\* a heap slot no Particle_Create has returned yet
Unallocated == [allocated |-> FALSE]

\* Particle_Create on heap ps: [ps, particle, errno].  at is the address malloc
\* returns when alloc says both malloc calls succeed, uid the value of rand();
\* particle is the pointer returned, NULL when creation fails.
Particle_Create(ps, errno, at, position, velocity, acceleration, mass, damping, startTime, uid, alloc) ==
    IF mass <= 0
    THEN [ps |-> ps, particle |-> NULL, errno |-> "INVALID_MASS"]
    ELSE IF damping < 0 \/ damping > UNIT
    THEN [ps |-> ps, particle |-> NULL, errno |-> "INVALID_DAMPING"]
    ELSE IF startTime < 0
    THEN [ps |-> ps, particle |-> NULL, errno |-> "INVALID_TIME"]
    ELSE IF ~alloc
    THEN [ps |-> ps, particle |-> NULL, errno |-> "MEMORY"]
    ELSE [ps |-> [ps EXCEPT ![at] =
             [position       |-> position,
              velocity       |-> velocity,
              acceleration   |-> acceleration,
              resultantForce |-> nullVectorDef,
              damping        |-> damping,
              time           |-> startTime,
              inverseMass    |-> Recip(mass),
              forceRegistry  |-> << >>,
              forceCapacity  |-> INITIAL_CAPACITY,
              forceCount     |-> 0,
              uniqueID       |-> uid]],
          particle |-> at,
          errno |-> "SUCCESS"]

\* ------------------------------------------------------- force registration

ForceGenerator(force, identifier, parameters, startTime, endTime) ==
    [function   |-> force,
     identity   |-> identifier,
     parameters |-> parameters,
     startTime  |-> startTime,
     endTime    |-> endTime,
     isActive   |-> TRUE]

\* a store that puts the new registration in front of the live ones
StoreGenerator_Front(particle, generator) ==
    [particle EXCEPT
        !.forceRegistry = <<generator>> \o SubSeq(@, 1, particle.forceCount),
        !.forceCount = @ + 1]

\* registry[forceCount++] = generator: the slot after the live ones is written,
\* whether it is fresh or left over from before a Particle_ClearForces
StoreGenerator(particle, generator) ==
    [particle EXCEPT
        !.forceRegistry =
            IF particle.forceCount < Len(@)
            THEN [@ EXCEPT ![particle.forceCount + 1] = generator]
            ELSE Append(@, generator),
        !.forceCount = @ + 1]

\* Particle_AddForce without its check of the identity
Particle_AddForce_NoIdCheck(ps, p, force, startTime, endTime, parameters, identifier, alloc) ==
    IF p = NULL \/ force = NULL
    THEN [ps |-> ps, code |-> "INVALID_PARAM"]
    ELSE IF startTime < 0 \/ endTime < 0
    THEN [ps |-> ps, code |-> "INVALID_TIME"]
    ELSE IF ps[p].forceCount >= ps[p].forceCapacity /\ ~alloc
    THEN [ps |-> ps, code |-> "MEMORY"]
    ELSE [ps |-> [ps EXCEPT ![p] =
                     StoreGenerator(IF ps[p].forceCount >= ps[p].forceCapacity
                                    THEN [ps[p] EXCEPT !.forceCapacity = @ * 2]
                                    ELSE ps[p],
                                    ForceGenerator(force, identifier, parameters,
                                                   startTime, endTime))],
          code |-> "SUCCESS"]

\* Particle_AddForce on heap ps: [ps, code].  alloc: whether realloc succeeds
\* should the registry have to grow.
Particle_AddForce(ps, p, force, startTime, endTime, parameters, identifier, alloc) ==
    IF p = NULL \/ force = NULL
    THEN [ps |-> ps, code |-> "INVALID_PARAM"]
    ELSE IF startTime < 0 \/ endTime < 0
    THEN [ps |-> ps, code |-> "INVALID_TIME"]
    ELSE IF identifier < 1 \/ identifier >= TOTAL_TYPES
    THEN [ps |-> ps, code |-> "INVALID_FORCE_ID"]
    ELSE IF ps[p].forceCount >= ps[p].forceCapacity /\ ~alloc
    THEN [ps |-> ps, code |-> "MEMORY"]
    ELSE LET grown == IF ps[p].forceCount >= ps[p].forceCapacity
                      THEN [ps[p] EXCEPT !.forceCapacity = @ * 2]
                      ELSE ps[p]
             generator == ForceGenerator(force, identifier, parameters, startTime, endTime)
         IN  [ps |-> [ps EXCEPT ![p] = StoreGenerator(grown, generator)],
              code |-> "SUCCESS"]

Particle_AddGrav(ps, p, alloc) ==
    IF build # "particle_h" /\ p = NULL
    THEN [ps |-> ps, code |-> "INVALID_PARAM"]
    ELSE Particle_AddForce(ps, p, "Particle_GravityForce", 0, Inf, NULL, GRAV, alloc)

Particle_AddDrag(ps, p, dragCoefficients, alloc) ==
    IF dragCoefficients = NULL
    THEN [ps |-> ps, code |-> "INVALID_PARAM"]
    ELSE Particle_AddForce(ps, p, "Particle_DragForce", 0, Inf, dragCoefficients, DRAG, alloc)

\* Both header families register on A, drop that result, and return the
\* result of registering on B; only particle_addForces.h checks for NULL first.
Particle_AddSpring(ps, particleA, particleB, springParameters, startTime, endTime, allocA, allocB) ==
    IF build # "particle_h" /\ (particleA = NULL \/ particleB = NULL \/ springParameters = NULL)
    THEN [ps |-> ps, code |-> "INVALID_PARAM"]
    ELSE LET first == Particle_AddForce(ps, particleA, "Particle_SpringForce",
                                        startTime, endTime, springParameters, SPRING, allocA)
         IN  Particle_AddForce(first.ps, particleB, "Particle_SpringForce",
                               startTime, endTime, springParameters, SPRING, allocB)

\* registers on B first, then on A (particle_addForces.h only)
Particle_AddElasticBungee(ps, particleA, particleB, elasticBungeeParameters, startTime, endTime, allocA, allocB) ==
    IF particleA = NULL \/ particleB = NULL \/ elasticBungeeParameters = NULL
    THEN [ps |-> ps, code |-> "INVALID_PARAM"]
    ELSE LET first == Particle_AddForce(ps, particleB, "Particle_ElasticBungeeForce",
                                        startTime, endTime, elasticBungeeParameters, BUNGEE, allocB)
         IN  Particle_AddForce(first.ps, particleA, "Particle_ElasticBungeeForce",
                               startTime, endTime, elasticBungeeParameters, BUNGEE, allocA)

\* the NULL test on the parameter block is inverted in the source
Particle_AddAnchoredSpring(ps, p, anchoredSpringParameters, startTime, endTime, alloc) ==
    IF p = NULL \/ anchoredSpringParameters # NULL
    THEN [ps |-> ps, code |-> "INVALID_PARAM"]
    ELSE Particle_AddForce(ps, p, "Particle_AnchoredSpringForce", startTime, endTime,
                           anchoredSpringParameters, ANCHORED_SPRING, alloc)

Particle_AddAnchoredBungee(ps, p, anchoredBungeeParameters, startTime, endTime, alloc) ==
    IF p = NULL \/ anchoredBungeeParameters = NULL
    THEN [ps |-> ps, code |-> "INVALID_PARAM"]
    ELSE Particle_AddForce(ps, p, "Particle_AnchoredBungeeForce", startTime, endTime,
                           anchoredBungeeParameters, ANCHORED_BUNGEE, alloc)

Particle_ClearForces_KeepCount(ps, p) ==
    IF p = NULL THEN ps
    ELSE [ps EXCEPT ![p].resultantForce = nullVectorDef]

Particle_ClearForces(ps, p) ==
    IF p = NULL THEN ps
    ELSE [ps EXCEPT ![p].resultantForce = nullVectorDef, ![p].forceCount = 0]

\* --------------------------------------------------------------- integrators

\* a window test that leaves the end of the window out
InWindow_StrictEnd(particle, generator) ==
    /\ generator.isActive
    /\ particle.time >= generator.startTime
    /\ particle.time < generator.endTime

\* generator->isActive and startTime <= particle->time <= endTime
InWindow(particle, generator) ==
    /\ generator.isActive
    /\ particle.time >= generator.startTime
    /\ particle.time <= generator.endTime

\* a damping factor that is linear in the step instead of a power
Pow_Linear(base, exponent) == R(RMul(base, exponent))

\* pow(base, exponent) for 0 <= base <= 1 and exponent >= 0, as a factor.
\* Exact where the power is on the grid (base 0 or 1, exponent 0, 1 or 2);
\* elsewhere the chord 1 - (1 - base) * exponent of the curve, clamped at base^2.
Pow(base, exponent) ==
    IF exponent = 0 \/ base = UNIT THEN Frac(1, 1)
    ELSE IF base = 0 THEN Frac(0, 1)
    ELSE IF exponent = UNIT THEN R(base)
    ELSE IF exponent >= 2 * UNIT THEN Frac(base * base, UNIT * UNIT)
    ELSE R(UNIT - RMul(UNIT - base, exponent))

\* The state an accumulation loop threads through the registry: the heap, the
\* error slot, the local totalForce (calculateK), and per registry index what
\* was added for it (terms) and how often its law was called (evals).
LoopState(ps, bs, errno, n) ==
    [ps |-> ps, bs |-> bs, errno |-> errno, total |-> nullVectorDef,
     terms |-> [i \in 1..n |-> << >>], evals |-> [i \in 1..n |-> 0]]

\* one call of the law of registration i, added to the particle's resultantForce
\* (toField) or to the local totalForce
EvalAndAdd(st, p, i, toField) ==
    Then(CallForce(st.ps[p].forceRegistry[i].function, st.ps, st.bs, p,
                   st.ps[p].forceRegistry[i].parameters),
         LAMBDA law :
            [st EXCEPT
                !.ps[p].resultantForce = IF toField THEN vecAdd(@, law.force) ELSE @,
                !.total = IF toField THEN @ ELSE vecAdd(@, law.force),
                !.errno = IF law.err = "keep" THEN @ ELSE law.err,
                !.terms[i] = Append(@, law.force),
                !.evals[i] = @ + 1])

\* Particle_EulerIntegrate, body of the inner loop
EulerBody(st, p, i) == EvalAndAdd(st, p, i, TRUE)

\* calculateK, body of the loop
KBody(st, p, i) == EvalAndAdd(st, p, i, FALSE)

\* particle.h Particle_Integrate, the SPRING branch: the second participant
\* takes the cached opposite force, the first evaluates the law and caches
CachedSpring(st, p, i) ==
    LET prm == st.ps[p].forceRegistry[i].parameters
    IN  IF st.bs[prm].notAlreadyUsed
        THEN [st EXCEPT
                !.ps[p].resultantForce = vecAdd(@, st.bs[prm].forceVal),
                !.bs[prm].notAlreadyUsed = FALSE,
                !.terms[i] = Append(@, st.bs[prm].forceVal)]
        ELSE Then(EvalAndAdd(st, p, i, TRUE),
                  LAMBDA after :
                     [after EXCEPT
                        !.bs[prm].notAlreadyUsed = TRUE,
                        !.bs[prm].forceVal =
                            invert(after.terms[i][Len(after.terms[i])])])

\* particle.h Particle_Integrate, body of the loop: the branch on the identity,
\* then the law is called and added once more (lines 608-609)
SingleBody(st, p, i) ==
    Then(IF st.ps[p].forceRegistry[i].identity = SPRING
         THEN CachedSpring(st, p, i)
         ELSE EvalAndAdd(st, p, i, TRUE),
         LAMBDA branched : EvalAndAdd(branched, p, i, TRUE))

LoopBody(kind, st, p, i) ==
    CASE kind = "particle_h" -> SingleBody(st, p, i)
      [] kind = "euler"      -> EulerBody(st, p, i)
      [] kind = "rk4"        -> KBody(st, p, i)

\* for (i = 0; i < particle->forceCount; i++) over registry indices i..forceCount
RECURSIVE ForceLoop(_, _, _, _)
ForceLoop(kind, st, p, i) ==
    IF i > st.ps[p].forceCount THEN st
    ELSE IF InWindow(st.ps[p], st.ps[p].forceRegistry[i])
    THEN Then(LoopBody(kind, st, p, i), LAMBDA next : ForceLoop(kind, next, p, i + 1))
    ELSE ForceLoop(kind, st, p, i + 1)

\* a tail that leaves the accumulated force in the particle
Kinematics_KeepsForce(particle, duration) ==
    Then(IF ~Particle_IsStatic(particle)
         THEN vecAdd(particle.acceleration,
                     scale(particle.resultantForce, particle.inverseMass))
         ELSE particle.acceleration,
         LAMBDA acc :
            [particle EXCEPT
                !.velocity = addScaled(@, acc, Pow(particle.damping, duration), R(duration)),
                !.time = @ + duration,
                !.acceleration = nullVectorDef])

\* the tail shared by the Euler sub-step and the particle.h step, after the
\* forces are accumulated: acceleration, velocity, resets, clock
Kinematics(particle, duration) ==
    Then(IF ~Particle_IsStatic(particle)
         THEN vecAdd(particle.acceleration,
                     scale(particle.resultantForce, particle.inverseMass))
         ELSE particle.acceleration,
         LAMBDA acc :
            [particle EXCEPT
                !.velocity = addScaled(@, acc, Pow(particle.damping, duration), R(duration)),
                !.resultantForce = nullVectorDef,
                !.time = @ + duration,
                !.acceleration = nullVectorDef])

\* the loop state at the top of the accumulation loop of particle p
LoopStart(ps, bs, errno, p) == LoopState(ps, bs, errno, ps[p].forceCount)

\* One pass "move, accumulate, update" over particle p with step `duration`:
\* a sub-step of Particle_EulerIntegrate or the whole particle.h step.
\* Gives the loop state with the pass applied and, in `total`, the resultant
\* force the pass had accumulated before it was reset.
StepPass(kind, ps, bs, errno, p, duration) ==
    Then(ForceLoop(kind,
                   LoopStart([ps EXCEPT ![p].position =
                                 addScaled(@, ps[p].velocity, R(UNIT), R(duration))],
                             bs, errno, p),
                   p, 1),
         LAMBDA st : [st EXCEPT !.total = st.ps[p].resultantForce,
                                !.ps[p] = Kinematics(st.ps[p], duration)])

\* calculateK: the loop state after the accumulation and the returned K
calculateK(ps, bs, errno, p, duration) ==
    Then(ForceLoop("rk4", LoopStart(ps, bs, errno, p), p, 1),
         LAMBDA st :
            [st |-> st,
             k |-> IF Particle_IsStatic(ps[p]) THEN nullVectorDef
                   ELSE scale(st.total, FTimes(ps[p].inverseMass, duration))])

\* opening checks that let a zero duration through
IntegrateError_NegativeOnly(p, duration) ==
    IF p = NULL THEN "INVALID_PARAM"
    ELSE IF duration < 0 THEN "INVALID_DURATION"
    ELSE "SUCCESS"

\* the checks every Particle_Integrate variant opens with
IntegrateError(p, duration) ==
    IF p = NULL THEN "INVALID_PARAM"
    ELSE IF duration <= 0 THEN "INVALID_DURATION"
    ELSE "SUCCESS"

\* closing sums that weigh the four samples alike, base + (k1 + k2 + k3 + k4)/6
WeightedSum_Unweighted(base, k) ==
    Then(addScaled(base, k[1], R(UNIT), Frac(1, 6)), LAMBDA one :
    Then(addScaled(one, k[2], R(UNIT), Frac(1, 6)), LAMBDA two :
    Then(addScaled(two, k[3], R(UNIT), Frac(1, 6)), LAMBDA three :
         addScaled(three, k[4], R(UNIT), Frac(1, 6)))))

\* the closing sums of Particle_RKIntegrate: base + k1/6 + 2 k2/6 + 2 k3/6 + k4/6,
\* added in that order
WeightedSum(base, k) ==
    Then(addScaled(base, k[1], R(UNIT), Frac(1, 6)), LAMBDA one :
    Then(addScaled(one, k[2], R(UNIT), Frac(2, 6)), LAMBDA two :
    Then(addScaled(two, k[3], R(UNIT), Frac(2, 6)), LAMBDA three :
         addScaled(three, k[4], R(UNIT), Frac(1, 6)))))

\* what Particle_RKIntegrate does to the particle after the calculateK call of
\* a stage; loc holds the locals initVel, initPos and the x_k and v_k so far
AfterK(particle, loc, stage, duration) ==
    CASE stage = 1 ->
            [particle EXCEPT
                !.time = @ + RMul(duration, UNIT \div 2),
                !.position = addScaled(@, loc.initVel, R(UNIT),
                                       R(RMul(UNIT \div 2, duration))),
                !.velocity = addScaled(@, loc.v_k[1], Frac(1, 1), Frac(1, 2))]
      [] stage = 2 ->
            [particle EXCEPT
                !.velocity = addScaled(loc.initVel, loc.v_k[2], Frac(1, 1), Frac(1, 2))]
      [] stage = 3 ->
            [particle EXCEPT
                !.time = @ + RMul(duration, UNIT \div 2),
                !.position = addScaled(@, loc.initVel, R(UNIT),
                                       R(RMul(UNIT \div 2, duration))),
                !.velocity = vecAdd(loc.initVel, loc.v_k[3])]
      [] stage = 4 ->
            [particle EXCEPT
                !.velocity = WeightedSum(loc.initVel, loc.v_k),
                !.position = WeightedSum(loc.initPos, loc.x_k)]

\* Particle_RKIntegrate cut at its four calculateK calls: stage i runs from
\* "x_ki = particle->velocity" to just before "x_k(i+1) = particle->velocity"
\* (stage 4: to the return).  Gives the loop state and the locals.
RKStage(ps, bs, errno, p, loc, stage, duration) ==
    Then(calculateK(ps, bs, errno, p, duration), LAMBDA K :
    Then([loc EXCEPT !.x_k = Append(@, scale(ps[p].velocity, R(duration))),
                     !.v_k = Append(@, K.k)], LAMBDA now :
         [st |-> [K.st EXCEPT !.ps[p] = AfterK(K.st.ps[p], now, stage, duration)],
          loc |-> now]))

\* ------------------------------------------------------------------ state

\* the registry indices a step added something for
Contributors(step) == {i \in DOMAIN step.terms : step.terms[i] # << >>}

\* the record of a (sub-)step: the particle's clock when the step tested the
\* windows, its number in the call, per registry index the vectors it added
\* and the number of calls of the law, and the force it had accumulated
StepRecord(t, n, st) ==
    [t |-> t, n |-> n, terms |-> st.terms, evals |-> st.evals, added |-> st.total]

\* the record of a successful Particle_Integrate(p, d): the particle at entry
\* and at return, and the steps taken
CallRecord(p, d, before, after, steps) ==
    [p |-> p, d |-> d, before |-> before, after |-> after, steps |-> steps]

\* the particles whose registry Particle_ClearForces has emptied and that have
\* gained no registration since, the last call included
ClearedNow ==
    (ret.cleared \cup (IF ret.op = "ClearForces" THEN {ret.p} \ {NULL} ELSE {}))
        \ {q \in PIDs : /\ particles[q] # Unallocated
                        /\ ret.heap[q] # Unallocated
                        /\ particles[q].forceCount > ret.heap[q].forceCount}

\* what the last API call returned: the call, its arguments, its result, the
\* heap and the parameter blocks it was made on, and the particles that were
\* cleared when it was made
Returned(op, p, code, args) ==
    [op |-> op, p |-> p, code |-> code, args |-> args, heap |-> particles,
     held |-> blocks, cleared |-> ClearedNow]

\* nothing has been called yet
NoRet ==
    [op |-> "none", p |-> NULL, code |-> "SUCCESS", args |-> << >>, heap |-> particles,
     held |-> blocks, cleared |-> {}]

\* ------------------------------------------------------ whole calls

\* Particle_EulerIntegrate, iteration n of the loop over the run so far
EulerStep(prev, p, duration, n) ==
    Then(StepPass("euler", prev.ps, prev.bs, prev.errno, p, duration),
         LAMBDA st : [ps |-> st.ps, bs |-> st.bs, errno |-> st.errno,
                      steps |-> Append(prev.steps,
                                       StepRecord(prev.ps[p].time, n, st))])

\* Particle_EulerIntegrate, the loop "for (i = 0; i < N_STEPS; i++)":
\* iterations lo + 1 .. hi in order over the run so far.  The range is
\* halved rather than peeled so that the evaluation nests log N_STEPS deep.
RECURSIVE EulerLoop(_, _, _, _, _)
EulerLoop(run, p, duration, lo, hi) ==
    IF hi <= lo THEN run
    ELSE IF hi = lo + 1 THEN EulerStep(run, p, duration, hi)
    ELSE Then(EulerLoop(run, p, duration, lo, (lo + hi) \div 2),
              LAMBDA half : EulerLoop(half, p, duration, (lo + hi) \div 2, hi))

\* an Euler loop that stops one sub-step short
Particle_EulerIntegrate_ShortLoop(ps, bs, errno, p, outDuration) ==
    EulerLoop([ps |-> ps, bs |-> bs, errno |-> errno, steps |-> << >>],
              p, RDiv(outDuration, N_STEPS * UNIT), 0, N_STEPS - 1)

\* Particle_EulerIntegrate past its checks: duration = outDuration / N_STEPS
Particle_EulerIntegrate(ps, bs, errno, p, outDuration) ==
    EulerLoop([ps |-> ps, bs |-> bs, errno |-> errno, steps |-> << >>],
              p, RDiv(outDuration, N_STEPS * UNIT), 0, N_STEPS)

\* particle.h Particle_Integrate past its checks: one pass over the duration
Particle_SingleIntegrate(ps, bs, errno, p, duration) ==
    Then(StepPass("particle_h", ps, bs, errno, p, duration), LAMBDA st :
         [ps |-> st.ps, bs |-> st.bs, errno |-> st.errno,
          steps |-> <<StepRecord(ps[p].time, 1, st)>>])

\* Particle_RKIntegrate, its four stages from stage `stage` on
RECURSIVE RKLoop(_, _, _, _, _)
RKLoop(run, p, loc, duration, stage) ==
    IF stage > 4 THEN run
    ELSE Then(RKStage(run.ps, run.bs, run.errno, p, loc, stage, duration), LAMBDA r :
              RKLoop([ps |-> r.st.ps, bs |-> r.st.bs, errno |-> r.st.errno,
                      steps |-> Append(run.steps,
                                       StepRecord(run.ps[p].time, stage, r.st))],
                     p, r.loc, duration, stage + 1))

\* Particle_RKIntegrate past its checks
Particle_RKIntegrate(ps, bs, errno, p, duration) ==
    RKLoop([ps |-> ps, bs |-> bs, errno |-> errno, steps |-> << >>], p,
           [initVel |-> ps[p].velocity, initPos |-> ps[p].position,
            v_k |-> << >>, x_k |-> << >>],
           duration, 1)

\* Particle_Integrate of the build, past its checks
IntegrateRun(ps, bs, errno, p, duration) ==
    CASE build = "particle_h" -> Particle_SingleIntegrate(ps, bs, errno, p, duration)
      [] build = "euler"      -> Particle_EulerIntegrate(ps, bs, errno, p, duration)
      [] build = "rk4"        -> Particle_RKIntegrate(ps, bs, errno, p, duration)

\* ----------------------------------------------------------------- bounds

\* successful Particle_Integrate calls in one behaviour
MaxCalls == 2

\* registrations per particle while integrating
MaxForces == 2

\* ---------------------------------------------------------------- actions
\* The caller is sequential: each action is one API call from entry to return.
\* The driver stops at the first call that reports an error.

Running == ret.code = "SUCCESS"

Frame == UNCHANGED <<build, blocks, particleErrno, calls, birth, driver>>

\* Particle_AddForce(p, force, startTime, endTime, parameters, identifier)
AddForce(p, force, startTime, endTime, parameters, identifier, alloc) ==
    /\ Running
    /\ \E r \in {Particle_AddForce(particles, p, force, startTime, endTime,
                                  parameters, identifier, alloc)} :
           /\ particles' = r.ps
           /\ ret' = Returned("AddForce", p, r.code,
                              <<force, startTime, endTime, parameters, identifier, alloc>>)
    /\ ops' = ops + 1
    /\ Frame

AddGrav(p, alloc) ==
    /\ Running
    /\ \E r \in {Particle_AddGrav(particles, p, alloc)} :
           /\ particles' = r.ps
           /\ ret' = Returned("AddGrav", p, r.code, <<alloc>>)
    /\ ops' = ops + 1
    /\ Frame

AddDrag(p, dragCoefficients, alloc) ==
    /\ Running
    /\ \E r \in {Particle_AddDrag(particles, p, dragCoefficients, alloc)} :
           /\ particles' = r.ps
           /\ ret' = Returned("AddDrag", p, r.code, <<dragCoefficients, alloc>>)
    /\ ops' = ops + 1
    /\ Frame

AddSpring(particleA, particleB, springParameters, startTime, endTime, allocA, allocB) ==
    /\ Running
    /\ \E r \in {Particle_AddSpring(particles, particleA, particleB, springParameters,
                                   startTime, endTime, allocA, allocB)} :
           /\ particles' = r.ps
           /\ ret' = Returned("AddSpring", particleA, r.code,
                              <<particleB, springParameters, startTime, endTime, allocA, allocB>>)
    /\ ops' = ops + 1
    /\ Frame

AddElasticBungee(particleA, particleB, params, startTime, endTime, allocA, allocB) ==
    /\ Running
    /\ build # "particle_h"
    /\ \E r \in {Particle_AddElasticBungee(particles, particleA, particleB, params,
                                          startTime, endTime, allocA, allocB)} :
           /\ particles' = r.ps
           /\ ret' = Returned("AddElasticBungee", particleA, r.code,
                              <<particleB, params, startTime, endTime, allocA, allocB>>)
    /\ ops' = ops + 1
    /\ Frame

AddAnchoredSpring(p, params, startTime, endTime, alloc) ==
    /\ Running
    /\ build # "particle_h"
    /\ \E r \in {Particle_AddAnchoredSpring(particles, p, params, startTime, endTime, alloc)} :
           /\ particles' = r.ps
           /\ ret' = Returned("AddAnchoredSpring", p, r.code,
                              <<params, startTime, endTime, alloc>>)
    /\ ops' = ops + 1
    /\ Frame

AddAnchoredBungee(p, params, startTime, endTime, alloc) ==
    /\ Running
    /\ build # "particle_h"
    /\ \E r \in {Particle_AddAnchoredBungee(particles, p, params, startTime, endTime, alloc)} :
           /\ particles' = r.ps
           /\ ret' = Returned("AddAnchoredBungee", p, r.code,
                              <<params, startTime, endTime, alloc>>)
    /\ ops' = ops + 1
    /\ Frame

ClearForces(p) ==
    /\ Running
    /\ particles' = Particle_ClearForces(particles, p)
    /\ ret' = Returned("ClearForces", p, "SUCCESS", << >>)
    /\ ops' = ops + 1
    /\ Frame

\* Particle_Integrate(p, duration), whichever integrator the build has
Particle_Integrate(p, duration) ==
    /\ Running
    /\ IF IntegrateError(p, duration) # "SUCCESS"
       THEN /\ ret' = Returned("Integrate", p, IntegrateError(p, duration), <<duration>>)
            /\ UNCHANGED <<build, particles, blocks, particleErrno, calls, birth, ops, driver>>
       ELSE \E run \in {IntegrateRun(particles, blocks, particleErrno, p, duration)} :
                /\ particles' = run.ps
                /\ blocks' = run.bs
                /\ particleErrno' = run.errno
                /\ calls' = Append(calls, CallRecord(p, duration, particles[p],
                                                     run.ps[p], run.steps))
                /\ ret' = Returned("Integrate", p, "SUCCESS", <<duration>>)
                /\ UNCHANGED <<build, birth, ops, driver>>

\* ------------------------------------------------------ parameter builders

\* buildDragCoeffs on the blocks bs: [bs, code]
buildDragCoeffs(bs, linear, quadratic, coeffs) ==
    IF coeffs = NULL
    THEN [bs |-> bs, code |-> "INVALID_PARAM"]
    ELSE IF linear < 0 \/ quadratic < 0
    THEN [bs |-> bs, code |-> "INVALID_DRAG_COEFFS"]
    ELSE [bs |-> [bs EXCEPT ![coeffs] = [linear |-> linear, quadratic |-> quadratic]],
          code |-> "SUCCESS"]

\* buildSpringParameters on the blocks bs: [bs, code].  The cache fields
\* notAlreadyUsed and forceVal exist in particle.h only, where the builder
\* clears them; no other build reads them.
buildSpringParameters(bs, particleA, particleB, springConstant, restLength, dampingCoeff, springParameters) ==
    IF springParameters = NULL
    THEN [bs |-> bs, code |-> "INVALID_PARAM"]
    ELSE IF particleA = NULL \/ particleB = NULL
    THEN [bs |-> bs, code |-> "NULL_SPRING_OTHER"]
    ELSE IF springConstant < 0
    THEN [bs |-> bs, code |-> "INVALID_SPRING_CONSTANT"]
    ELSE IF restLength < 0
    THEN [bs |-> bs, code |-> "INVALID_REST_LENGTH"]
    ELSE IF dampingCoeff < 0
    THEN [bs |-> bs, code |-> "INVALID_DAMPING_COEFF"]
    ELSE [bs |-> [bs EXCEPT ![springParameters] =
                     [particleA      |-> particleA,
                      particleB      |-> particleB,
                      springConstant |-> springConstant,
                      restLength     |-> restLength,
                      dampingCoeff   |-> dampingCoeff,
                      notAlreadyUsed |-> FALSE,
                      forceVal       |-> nullVectorDef]],
          code |-> "SUCCESS"]

\* buildElasticBungeeParameters hands everything to buildSpringParameters
buildElasticBungeeParameters(bs, particleA, particleB, springConstant, restLength, dampingCoeff, elasticBungeeParameters) ==
    buildSpringParameters(bs, particleA, particleB, springConstant, restLength,
                          dampingCoeff, elasticBungeeParameters)

\* the anchor a block holds: what was stored in it, or, in memory nothing
\* was ever stored in, whatever `junk` the memory holds
HeldAnchor(block, junk) == IF block = Unbuilt THEN junk ELSE block.anchor

\* buildAnchoredSpringParameters: [bs, code].  It stores the three scalars but
\* not the anchor, and control reaches the end of the function without a
\* return statement: the value the caller receives is indeterminate, `junkCode`
\* stands for it, as `junk` stands for the anchor left in the block.
buildAnchoredSpringParameters(bs, anchor, springConstant, restLength, dampingCoeff, anchoredSpringParameters, junk, junkCode) ==
    IF anchoredSpringParameters = NULL
    THEN [bs |-> bs, code |-> "INVALID_PARAM"]
    ELSE IF springConstant < 0
    THEN [bs |-> bs, code |-> "INVALID_SPRING_CONSTANT"]
    ELSE IF restLength < 0
    THEN [bs |-> bs, code |-> "INVALID_REST_LENGTH"]
    ELSE IF dampingCoeff < 0
    THEN [bs |-> bs, code |-> "INVALID_DAMPING_COEFF"]
    ELSE [bs |-> [bs EXCEPT ![anchoredSpringParameters] =
                     [anchor         |-> HeldAnchor(@, junk),
                      springConstant |-> springConstant,
                      restLength     |-> restLength,
                      dampingCoeff   |-> dampingCoeff]],
          code |-> junkCode]

\* buildAnchoredBungeeParameters: [bs, code]
buildAnchoredBungeeParameters(bs, anchor, springConstant, restLength, dampingCoeff, anchoredBungeeParameters) ==
    IF anchoredBungeeParameters = NULL
    THEN [bs |-> bs, code |-> "INVALID_PARAM"]
    ELSE IF springConstant < 0
    THEN [bs |-> bs, code |-> "INVALID_SPRING_CONSTANT"]
    ELSE IF restLength < 0
    THEN [bs |-> bs, code |-> "INVALID_REST_LENGTH"]
    ELSE IF dampingCoeff < 0
    THEN [bs |-> bs, code |-> "INVALID_DAMPING_COEFF"]
    ELSE [bs |-> [bs EXCEPT ![anchoredBungeeParameters] =
                     [anchor         |-> anchor,
                      springConstant |-> springConstant,
                      restLength     |-> restLength,
                      dampingCoeff   |-> dampingCoeff]],
          code |-> "SUCCESS"]

\* ------------------------------------------------------------- the set-up
\* What a driver does before its loop: two particles, a drag block and a
\* spring block between the two.

\* mass, velocity and damping given to the first particle
Templates ==
    [mass : {UNIT, Inf}, velocity : {nullVectorDef, vectorDef(3 * UNIT, 0, 0)},
     damping : {0, UNIT}]

EmptyHeap == [p \in PIDs |-> Unallocated]

\* the heap after both Particle_Create calls
PairHeap(t) ==
    LET one == Particle_Create(EmptyHeap, "SUCCESS", "p1", nullVectorDef, t.velocity,
                               nullVectorDef, t.mass, t.damping, 0, 1, TRUE)
        two == Particle_Create(one.ps, one.errno, "p2", vectorDef(6 * UNIT, 0, 0),
                               nullVectorDef, nullVectorDef, UNIT, UNIT, 0, 2, TRUE)
    IN  two.ps

\* the blocks after buildDragCoeffs and buildSpringParameters
BuiltBlocks ==
    LET none == [b \in BlockRefs |-> Unbuilt]
        drag == buildDragCoeffs(none, UNIT \div 10, UNIT \div 100, "drag")
        spring == buildSpringParameters(drag.bs, "p1", "p2", UNIT, 2 * UNIT,
                                        UNIT \div 2, "spring")
    IN  spring.bs

InitCommon ==
    /\ blocks = BuiltBlocks
    /\ particleErrno = "SUCCESS"
    /\ ret = NoRet
    /\ calls = << >>
    /\ driver = NoDriver
    /\ ops = 0

Init ==
    /\ build \in Builds
    /\ \E t \in Templates : particles = PairHeap(t)
    /\ birth = particles
    /\ InitCommon

\* durations handed to Particle_Integrate
Durations == {-UNIT, 0, UNIT}

\* activity windows handed to Particle_AddForce
Windows == {<<0, UNIT \div 2>>, <<UNIT \div 2, Inf>>}

\* registrations are made before the first integration
Registering == ops < MaxForces /\ calls = << >>

\* a failing call costs nothing; the successful ones are bounded
Integrate(p, d) ==
    /\ IntegrateError(p, d) = "SUCCESS" => Len(calls) < MaxCalls
    /\ Particle_Integrate(p, d)

Next ==
    \/ Registering /\ AddGrav("p1", TRUE)
    \/ Registering /\ AddDrag("p1", "drag", TRUE)
    \/ \E w \in Windows :
          Registering /\ AddForce("p1", "Particle_GravityForce", w[1], w[2], NULL, GRAV, TRUE)
    \/ Registering /\ AddSpring("p1", "p2", "spring", 0, Inf, TRUE, TRUE)
    \/ \E p \in PIDs \cup {NULL}, d \in Durations : Integrate(p, d)

Spec == Init /\ [][Next]_vars

\* ------------------------------------------------- the registry on its own
\* Registration calls with every kind of argument, on particles whose
\* registries are empty, nearly full, full, and one short of the second growth.

\* registration and clearing calls made per behaviour
MaxOps == 2

\* particle p after n more Particle_AddGrav calls
RECURSIVE Prefilled(_, _, _)
Prefilled(ps, p, n) ==
    IF n = 0 THEN ps
    ELSE Then(Prefilled(ps, p, n - 1), LAMBDA filled : Particle_AddGrav(filled, p, TRUE).ps)

\* the numbers of registrations the two particles start with
Fills == {0, 7, 8, 15} \X {0, 8}

InitRegistry ==
    /\ build \in Builds
    /\ \E n \in Fills :
          particles = Then(Prefilled(PairHeap([mass |-> UNIT, velocity |-> nullVectorDef,
                                               damping |-> UNIT]), "p1", n[1]),
                           LAMBDA one : Prefilled(one, "p2", n[2]))
    /\ birth = particles
    /\ InitCommon

\* identities handed to Particle_AddForce: below the range, two kinds, the
\* count sentinel, and the kind declared after it
Identifiers == {0, GRAV, DRAG, TOTAL_TYPES, ANCHORED_BUNGEE}

NextRegistry ==
    \/ \E p \in {"p1", NULL}, force \in {"Particle_GravityForce", NULL},
          startTime \in {0, UNIT, -UNIT}, endTime \in {Inf, -UNIT},
          identifier \in Identifiers, alloc \in BOOLEAN :
          ops < MaxOps /\ AddForce(p, force, startTime, endTime, NULL, identifier, alloc)
    \/ \E p \in PIDs \cup {NULL}, alloc \in BOOLEAN :
          ops < MaxOps /\ AddGrav(p, alloc)
    \/ \E p \in {"p1", NULL}, coeffs \in {"drag", NULL}, alloc \in BOOLEAN :
          ops < MaxOps /\ AddDrag(p, coeffs, alloc)
    \/ \E a \in {"p1", NULL}, b \in {"p2", NULL}, prm \in {"spring", NULL},
          allocA \in BOOLEAN, allocB \in BOOLEAN :
          ops < MaxOps /\ AddSpring(a, b, prm, 0, Inf, allocA, allocB)
    \/ \E a \in {"p1", NULL}, b \in {"p2", NULL}, prm \in {"bungee", NULL},
          allocA \in BOOLEAN, allocB \in BOOLEAN :
          ops < MaxOps /\ AddElasticBungee(a, b, prm, 0, Inf, allocA, allocB)
    \/ \E p \in {"p1", NULL}, prm \in {"anchor", NULL}, alloc \in BOOLEAN :
          ops < MaxOps /\ AddAnchoredSpring(p, prm, 0, Inf, alloc)
    \/ \E p \in {"p1", NULL}, prm \in {"anchor", NULL}, alloc \in BOOLEAN :
          ops < MaxOps /\ AddAnchoredBungee(p, prm, 0, Inf, alloc)
    \/ \E p \in {"p1", NULL} :
          ops < MaxOps /\ ClearForces(p)

SpecRegistry == InitRegistry /\ [][NextRegistry]_vars

\* --------------------------------------------------------- construction
\* Particle_Create calls with every kind of argument, on an empty heap.

\* Particle_Create calls made per behaviour
MaxCreates == 2

\* Particle_Create(position, velocity, acceleration, mass, damping, startTime)
\* returning the address `at`
Create(at, mass, damping, startTime, uid, alloc) ==
    /\ Running
    /\ particles[at] = Unallocated
    /\ \E r \in {Particle_Create(particles, particleErrno, at, nullVectorDef,
                                 vectorDef(UNIT, 0, 0), nullVectorDef, mass, damping,
                                 startTime, uid, alloc)} :
           /\ particles' = r.ps
           /\ birth' = r.ps
           /\ particleErrno' = r.errno
           /\ ret' = Returned("Create", r.particle, r.errno,
                              <<mass, damping, startTime, alloc>>)
    /\ ops' = ops + 1
    /\ UNCHANGED <<build, blocks, calls, driver>>

InitCreate ==
    /\ build \in Builds
    /\ particles = EmptyHeap
    /\ birth = particles
    /\ InitCommon

Masses == {-UNIT, 0, UNIT, 2 * UNIT, Inf}

Dampings == {-1, 0, UNIT \div 2, UNIT, UNIT + 1}

StartTimes == {-1, 0, UNIT \div 2}

NextCreate ==
    \E at \in PIDs, mass \in Masses, damping \in Dampings, startTime \in StartTimes,
       alloc \in BOOLEAN :
        ops < MaxCreates /\ Create(at, mass, damping, startTime, ops + 1, alloc)

SpecCreate == InitCreate /\ [][NextCreate]_vars

\* ------------------------------------------------- the last-error slot

\* a read of the slot that leaves it as it is
Particle_GetLastError_Keeps(errno) == [lastError |-> errno, errno |-> errno]

\* Particle_GetLastError(): returns the slot and clears it
Particle_GetLastError(errno) == [lastError |-> errno, errno |-> "SUCCESS"]

\* the caller asks for the last error, after a failed call too; the log keeps
\* the call it followed, the slot it found and the value it returned
GetLastError ==
    /\ \E r \in {Particle_GetLastError(particleErrno)} :
           /\ particleErrno' = r.errno
           /\ calls' = Append(calls, [fn |-> "Particle_GetLastError",
                                      after |-> [op |-> ret.op, p |-> ret.p, code |-> ret.code],
                                      slot |-> particleErrno,
                                      lastError |-> r.lastError])
           /\ ret' = Returned("GetLastError", NULL, "SUCCESS", <<r.lastError>>)
    /\ ops' = ops + 1
    /\ UNCHANGED <<build, particles, blocks, birth, driver>>

MaxLastErrorOps == 3

NextLastError ==
    \/ \E at \in PIDs, mass \in Masses, damping \in Dampings, startTime \in StartTimes,
          alloc \in BOOLEAN :
           ops < MaxLastErrorOps /\ Create(at, mass, damping, startTime, ops + 1, alloc)
    \/ ops < MaxLastErrorOps /\ GetLastError

SpecLastError == InitCreate /\ [][NextLastError]_vars


\* ------------------------------------------- the builders, called on their own

MaxBuilds == 2

\* one call of a builder that returned r = [bs, code]
Built_(op, r, args) ==
    /\ blocks' = r.bs
    /\ ret' = Returned(op, NULL, r.code, args)
    /\ ops' = ops + 1
    /\ UNCHANGED <<build, particles, particleErrno, calls, birth, driver>>

BuildSpring(a, b, k, rest, c, prm) ==
    /\ Running
    /\ \E r \in {buildSpringParameters(blocks, a, b, k, rest, c, prm)} :
           Built_("buildSpringParameters", r, <<a, b, k, rest, c, prm>>)

\* the anchored and the bungee builders are not part of particle.h
BuildElasticBungee(a, b, k, rest, c, prm) ==
    /\ Running
    /\ build # "particle_h"
    /\ \E r \in {buildElasticBungeeParameters(blocks, a, b, k, rest, c, prm)} :
           Built_("buildElasticBungeeParameters", r, <<a, b, k, rest, c, prm>>)

BuildAnchoredSpring(anchor, k, rest, c, prm, junk, junkCode) ==
    /\ Running
    /\ build # "particle_h"
    /\ \E r \in {buildAnchoredSpringParameters(blocks, anchor, k, rest, c, prm,
                                               junk, junkCode)} :
           Built_("buildAnchoredSpringParameters", r, <<anchor, NULL, k, rest, c, prm>>)

BuildAnchoredBungee(anchor, k, rest, c, prm) ==
    /\ Running
    /\ build # "particle_h"
    /\ \E r \in {buildAnchoredBungeeParameters(blocks, anchor, k, rest, c, prm)} :
           Built_("buildAnchoredBungeeParameters", r, <<anchor, NULL, k, rest, c, prm>>)

InitBuild ==
    /\ build \in Builds
    /\ particles = PairHeap([mass |-> UNIT, velocity |-> nullVectorDef, damping |-> UNIT])
    /\ birth = particles
    /\ blocks = [b \in BlockRefs |-> Unbuilt]
    /\ particleErrno = "SUCCESS"
    /\ ret = NoRet
    /\ calls = << >>
    /\ driver = NoDriver
    /\ ops = 0

SpringConstants == {-UNIT, 0, UNIT}

RestLengths == {-UNIT, 2 * UNIT}

DampingCoeffs == {-UNIT, UNIT \div 2}

Anchors == {nullVectorDef, vectorDef(0, 3 * UNIT, 0)}

\* what memory nobody wrote to may hold, and what a function that ends without
\* a return statement may hand back
JunkAnchors == {nullVectorDef, vectorDef(7 * UNIT, 0, 0)}

JunkCodes == {"SUCCESS", "INVALID_PARAM", "INVALID_DURATION"}

NextBuild ==
    \/ \E a \in {"p1", NULL}, b \in {"p2", NULL}, k \in SpringConstants,
          rest \in RestLengths, c \in DampingCoeffs, prm \in {"spring", NULL} :
           ops < MaxBuilds /\ BuildSpring(a, b, k, rest, c, prm)
    \/ \E a \in {"p1", NULL}, b \in {"p2", NULL}, k \in SpringConstants,
          rest \in RestLengths, c \in DampingCoeffs, prm \in {"bungee", NULL} :
           ops < MaxBuilds /\ BuildElasticBungee(a, b, k, rest, c, prm)
    \/ \E anchor \in Anchors, k \in SpringConstants, rest \in RestLengths,
          c \in DampingCoeffs, prm \in {"anchor", NULL}, junk \in JunkAnchors,
          junkCode \in JunkCodes :
           ops < MaxBuilds /\ BuildAnchoredSpring(anchor, k, rest, c, prm, junk, junkCode)
    \/ \E anchor \in Anchors, k \in SpringConstants, rest \in RestLengths,
          c \in DampingCoeffs, prm \in {"anchor", NULL} :
           ops < MaxBuilds /\ BuildAnchoredBungee(anchor, k, rest, c, prm)

SpecBuild == InitBuild /\ [][NextBuild]_vars

\* ------------------------------- clearing the registry between integrations

MaxClearOps == 3

InitClear ==
    /\ build \in Builds
    /\ particles = PairHeap([mass |-> UNIT, velocity |-> vectorDef(3 * UNIT, 0, 0),
                             damping |-> UNIT])
    /\ birth = particles
    /\ InitCommon

NextClear ==
    \/ ops < MaxClearOps /\ AddGrav("p1", TRUE)
    \/ ops < MaxClearOps /\ AddDrag("p1", "drag", TRUE)
    \/ \E p \in PIDs \cup {NULL} : ops < MaxClearOps /\ ClearForces(p)
    \/ \E p \in PIDs : Integrate(p, UNIT)

SpecClear == InitClear /\ [][NextClear]_vars

\* ------------------------------------------- the force laws, called directly

\* two particles from Particle_Create, the second at the origin, with the
\* uniqueIDs rand() drew for them
LawHeap(position, velocityOne, velocityTwo, mass, uids) ==
    LET one == Particle_Create(EmptyHeap, "SUCCESS", "p1", position, velocityOne,
                               nullVectorDef, mass, UNIT, 0, uids[1], TRUE)
        two == Particle_Create(one.ps, one.errno, "p2", nullVectorDef, velocityTwo,
                               nullVectorDef, UNIT, UNIT, 0, uids[2], TRUE)
    IN  two.ps

\* the blocks of the spring family, all with the same constants, the anchor at
\* the origin
LawBlocks(k, rest, c) ==
    LET none == [b \in BlockRefs |-> Unbuilt]
        spring == buildSpringParameters(none, "p1", "p2", k, rest, c, "spring")
        bungee == buildElasticBungeeParameters(spring.bs, "p1", "p2", k, rest, c, "bungee")
        anchor == buildAnchoredBungeeParameters(bungee.bs, nullVectorDef, k, rest, c,
                                                "anchor")
    IN  anchor.bs

\* the record of one evaluation of a law
LawRecord(fn, p, prm, force) == [fn |-> fn, p |-> p, prm |-> prm, force |-> force]

\* one call fn(p, prm) of a force law; the laws return a vector and report
\* through particleErrno
Evaluate(fn, p, prm) ==
    /\ Running
    /\ \E law \in {CallForce(fn, particles, blocks, p, prm)} :
           /\ particleErrno' = IF law.err = "keep" THEN particleErrno ELSE law.err
           /\ calls' = Append(calls, LawRecord(fn, p, prm, law.force))
           /\ ret' = Returned(fn, p, "SUCCESS", <<prm, law.force>>)
    /\ ops' = ops + 1
    /\ UNCHANGED <<build, particles, blocks, birth, driver>>

MaxSpringEvals == 1

Separations ==
    {nullVectorDef, vectorDef(UNIT, 0, 0), vectorDef(2 * UNIT, 0, 0),
     vectorDef(3 * UNIT, 0, 0), vectorDef(3 * UNIT, 4 * UNIT, 0)}

Velocities ==
    {nullVectorDef, vectorDef(UNIT, 0, 0), vectorDef(-4 * UNIT, 0, 0),
     vectorDef(0, UNIT, 0)}

InitSprings ==
    /\ build \in Builds
    /\ \E position \in Separations, velocityOne \in Velocities,
          velocityTwo \in {nullVectorDef, vectorDef(UNIT, 0, 0)},
          uids \in {<<1, 2>>, <<5, 5>>} :
           particles = LawHeap(position, velocityOne, velocityTwo, UNIT, uids)
    /\ birth = particles
    /\ \E k \in {0, UNIT, 2 * UNIT}, rest \in {0, 2 * UNIT, 5 * UNIT},
          c \in {0, UNIT \div 2} :
           blocks = LawBlocks(k, rest, c)
    /\ particleErrno = "SUCCESS"
    /\ ret = NoRet
    /\ calls = << >>
    /\ driver = NoDriver
    /\ ops = 0

\* the bungee and the anchored laws are not part of particle.h
NextSprings ==
    \/ \E p \in PIDs :
           ops < MaxSpringEvals /\ Evaluate("Particle_SpringForce", p, "spring")
    \/ \E p \in PIDs :
           /\ ops < MaxSpringEvals /\ build # "particle_h"
           /\ Evaluate("Particle_ElasticBungeeForce", p, "bungee")
    \/ \E p \in PIDs :
           /\ ops < MaxSpringEvals /\ build # "particle_h"
           /\ Evaluate("Particle_AnchoredSpringForce", p, "anchor")
    \/ \E p \in PIDs :
           /\ ops < MaxSpringEvals /\ build # "particle_h"
           /\ Evaluate("Particle_AnchoredBungeeForce", p, "anchor")

SpecSprings == InitSprings /\ [][NextSprings]_vars

MaxDragEvals == 2

\* speeds below, at and above the threshold of the drag law
DragVelocities ==
    {nullVectorDef, vectorDef(5, 0, 0), vectorDef(0, -9, 0), vectorDef(DRAG_DEADZONE, 0, 0),
     vectorDef(0, 0, 11), vectorDef(UNIT, 0, 0), vectorDef(0, -2 * UNIT, 0),
     vectorDef(3 * UNIT, 4 * UNIT, 0)}

InitDrag ==
    /\ build \in Builds
    /\ \E velocityOne \in DragVelocities, velocityTwo \in DragVelocities,
          mass \in {UNIT, 2 * UNIT, Inf} :
           particles = LawHeap(nullVectorDef, velocityOne, velocityTwo, mass, <<1, 2>>)
    /\ birth = particles
    /\ \E linear \in {0, UNIT}, quadratic \in {0, UNIT \div 10} :
           blocks = buildDragCoeffs([b \in BlockRefs |-> Unbuilt], linear, quadratic,
                                    "drag").bs
    /\ particleErrno = "SUCCESS"
    /\ ret = NoRet
    /\ calls = << >>
    /\ driver = NoDriver
    /\ ops = 0

NextDrag ==
    \/ \E p \in PIDs : ops < MaxDragEvals /\ Evaluate("Particle_GravityForce", p, NULL)
    \/ \E p \in PIDs : ops < MaxDragEvals /\ Evaluate("Particle_DragForce", p, "drag")

SpecDrag == InitDrag /\ [][NextDrag]_vars

\* ------------------------- integration with an acceleration the caller set

\* accelerations the caller assigns to particle->acceleration before integrating
Accelerations == {nullVectorDef, vectorDef(0, 2 * UNIT, 0)}

InitAccel ==
    /\ build \in Builds
    /\ \E mass \in {UNIT, Inf}, damping \in {UNIT \div 2, UNIT}, acceleration \in Accelerations :
           particles = [PairHeap([mass |-> mass, velocity |-> vectorDef(3 * UNIT, 0, 0),
                                  damping |-> damping])
                           EXCEPT !["p1"].acceleration = acceleration]
    /\ birth = particles
    /\ InitCommon

NextAccel ==
    \/ Registering /\ AddGrav("p1", TRUE)
    \/ \E w \in {<<UNIT \div 2, Inf>>, <<3 * UNIT, Inf>>} :
          Registering /\ AddForce("p1", "Particle_GravityForce", w[1], w[2], NULL, GRAV, TRUE)
    \/ \E d \in {UNIT \div 2, UNIT} : Integrate("p1", d)

SpecAccel == InitAccel /\ [][NextAccel]_vars

\* ------------------------------------ the batch driver SimulateParticles

THREAD_NO == 4

MaxFrames == 2

\* the threads of the OpenMP team
Workers == 1..THREAD_NO

\* particleArray, in index order
particleArray == <<"p1", "p2">>

\* schedule(dynamic, chunk_size): consecutive runs of chunk_size indices,
\* with chunk_size = numOfParticles / THREAD_NO + 1, handed out in order
RECURSIVE Chunks(_, _)
Chunks(array, chunk_size) ==
    IF Len(array) <= chunk_size THEN IF array = << >> THEN << >> ELSE <<array>>
    ELSE <<SubSeq(array, 1, chunk_size)>>
             \o Chunks(SubSeq(array, chunk_size + 1, Len(array)), chunk_size)

\* one frame of the loop: the chunks of the parallel for, nobody at work
FrameStart(frame) ==
    [kind |-> "omp", frame |-> frame,
     todo |-> Chunks(particleArray, (Len(particleArray) \div THREAD_NO) + 1),
     pc |-> [w \in Workers |-> "idle"],
     rest |-> [w \in Workers |-> << >>],
     at |-> [w \in Workers |-> NULL],
     done |-> [w \in Workers |-> NoDriver]]

\* a free thread takes the next chunk
Grab(w) ==
    /\ driver.pc[w] = "idle"
    /\ driver.todo # << >>
    /\ driver' = [driver EXCEPT !.pc[w] = "call", !.rest[w] = Head(driver.todo),
                                !.todo = Tail(driver.todo)]
    /\ UNCHANGED <<build, particles, blocks, particleErrno, ret, calls, birth, ops>>

\* the thread calls Particle_Integrate(&particleArray[i], frameDuration) for
\* the next index of its chunk
Enter(w) ==
    /\ driver.pc[w] = "call"
    /\ driver' = [driver EXCEPT !.pc[w] = "forces", !.at[w] = Head(driver.rest[w]),
                                !.rest[w] = Tail(driver.rest[w])]
    /\ UNCHANGED <<build, particles, blocks, particleErrno, ret, calls, birth, ops>>

\* inside the call: the particle's own state and, through the force laws, the
\* state of the other participants are read as the heap holds them now
Accumulate(w, frameDuration) ==
    /\ driver.pc[w] = "forces"
    /\ \E run \in {IntegrateRun(particles, blocks, particleErrno, driver.at[w],
                                frameDuration)} :
           driver' = [driver EXCEPT !.pc[w] = "update",
                                    !.done[w] = [ps |-> run.ps, bs |-> run.bs,
                                                 errno |-> run.errno]]
    /\ UNCHANGED <<build, particles, blocks, particleErrno, ret, calls, birth, ops>>

\* the call has written the particle and returns
Finish(w, frameDuration) ==
    /\ driver.pc[w] = "update"
    /\ particles' = [particles EXCEPT ![driver.at[w]] = driver.done[w].ps[driver.at[w]]]
    /\ blocks' = driver.done[w].bs
    /\ particleErrno' = driver.done[w].errno
    /\ ret' = Returned("Integrate", driver.at[w], "SUCCESS", <<frameDuration>>)
    /\ driver' = [driver EXCEPT !.pc[w] = IF driver.rest[w] = << >> THEN "idle" ELSE "call",
                                !.at[w] = NULL, !.done[w] = NoDriver]
    /\ UNCHANGED <<build, calls, birth, ops>>

\* the barrier that ends the parallel for, then the next pass of while (true)
NextFrame ==
    /\ driver.todo = << >>
    /\ \A w \in Workers : driver.pc[w] = "idle"
    /\ driver.frame < MaxFrames
    /\ driver' = FrameStart(driver.frame + 1)
    /\ UNCHANGED <<build, particles, blocks, particleErrno, ret, calls, birth, ops>>

\* the particles of the array joined by a spring registered on both
InitSimulate ==
    /\ build \in {"euler", "rk4"}
    /\ particles = Particle_AddSpring(
                       PairHeap([mass |-> UNIT, velocity |-> vectorDef(3 * UNIT, 0, 0),
                                 damping |-> UNIT]),
                       "p1", "p2", "spring", 0, Inf, TRUE, TRUE).ps
    /\ birth = particles
    /\ blocks = BuiltBlocks
    /\ particleErrno = "SUCCESS"
    /\ ret = NoRet
    /\ calls = << >>
    /\ ops = 0
    /\ driver = FrameStart(1)

NextSimulate ==
    \/ \E w \in Workers : Grab(w)
    \/ \E w \in Workers : Enter(w)
    \/ \E w \in Workers : Accumulate(w, UNIT)
    \/ \E w \in Workers : Finish(w, UNIT)
    \/ NextFrame

SpecSimulate == InitSimulate /\ [][NextSimulate]_vars

\* ------------------------------------------ the threaded demo driver
\* testBungee.c: the main thread creates pairs, starts the update threads of a
\* frame, joins them and renders; the update threads share one mutex. Where a
\* particle is after Particle_Integrate depends on the random position and
\* velocity it was created with, so whether it has left the window is drawn.

PARTICLES_PER_THREAD == 10

MAX_THREADS == 16

\* pairs created per behaviour, and the slots they fill
MaxPairs == 11

MaxDemoFrames == 2

\* the slots whose particles may leave the window
Leavers == {6, 7, 14}

\* updateParticlesThreaded: the number of threads of a frame
threadsToUse(particleCount) ==
    LET requiredThreads == (particleCount + PARTICLES_PER_THREAD - 1) \div PARTICLES_PER_THREAD
    IN  IF requiredThreads < MAX_THREADS THEN requiredThreads ELSE MAX_THREADS

\* threadData[i].startIndex and threadData[i].endIndex
startIndex(i, particleCount) == i * (particleCount \div threadsToUse(particleCount))

\* a last thread that stops where the equal shares stop
endIndex_EqualShares(i, particleCount) ==
    (i + 1) * (particleCount \div threadsToUse(particleCount))

endIndex(i, particleCount) ==
    IF i = threadsToUse(particleCount) - 1
    THEN particleCount
    ELSE (i + 1) * (particleCount \div threadsToUse(particleCount))

\* ParticleInstance particles[MAX_PARTICLES] = {0}; a particle pointer of the
\* demo is << >> when null and <<k>> for the particle first stored in slot k
NoInstance == [particle |-> << >>, active |-> FALSE, pairIndex |-> 0]

\* a thread that pthread_create has not started in this frame
Unborn == [pc |-> "unborn", i |-> 0, startIndex |-> 0, endIndex |-> 0]

\* the demo at the top of the frame loop; destroyed counts the Particle_Destroy calls on it,
\* integrated the Particle_Integrate calls on a slot in the current frame,
\* stale records a use of a destroyed or missing particle
DemoStart(capacity) ==
    [kind |-> "pthread", pc |-> "poll", running |-> TRUE, frame |-> 1, next |-> 0,
     particleCount |-> 0,
     slots |-> [k \in 0..(capacity - 1) |-> NoInstance],
     mutex |-> {},
     threads |-> [t \in 0..(MAX_THREADS - 1) |-> Unborn],
     destroyed |-> [k \in 0..(capacity - 1) |-> 0],
     integrated |-> [k \in 0..(capacity - 1) |-> 0],
     failed |-> 0,
     stale |-> FALSE]

DemoFrame == UNCHANGED <<build, particles, blocks, particleErrno, ret, calls, birth, ops>>

\* Particle_Destroy on the particle of slot k, and the slot emptied
Destroyed(d, k) ==
    [d EXCEPT !.destroyed[d.slots[k].particle[1]] = @ + 1,
              !.slots[k].particle = << >>,
              !.slots[k].active = FALSE]

\* key a: createParticlePair; when a step of the construction fails the
\* particles made so far are destroyed and nothing is stored
createParticlePair(ok) ==
    /\ driver.pc = "poll"
    /\ driver.particleCount + 2 <= 2 * MaxPairs
    /\ IF ok
       THEN LET n == driver.particleCount
            IN  driver' = [driver EXCEPT
                    !.slots[n] = [particle |-> <<n>>, active |-> TRUE, pairIndex |-> n + 1],
                    !.slots[n + 1] = [particle |-> <<n + 1>>, active |-> TRUE, pairIndex |-> n],
                    !.particleCount = n + 2]
       ELSE /\ driver.failed = 0
            /\ driver' = [driver EXCEPT !.failed = 1]
    /\ DemoFrame

\* the window is closed: the current frame is still updated and rendered
Quit ==
    /\ driver.pc = "poll"
    /\ driver.running
    /\ driver' = [driver EXCEPT !.running = FALSE]
    /\ DemoFrame

\* the events are drained: updateParticlesThreaded is called
Update ==
    /\ driver.pc = "poll"
    /\ driver' = [driver EXCEPT !.pc = "spawn", !.next = 0]
    /\ DemoFrame

\* one pass of the distributing loop: threadData[i] is filled and the thread
\* is started; after the last one the joining loop begins
Spawn ==
    /\ driver.pc = "spawn"
    /\ LET i == driver.next
           n == driver.particleCount
       IN  IF i < threadsToUse(n)
           THEN driver' = [driver EXCEPT
                    !.threads[i] = [pc |-> IF startIndex(i, n) < endIndex(i, n)
                                           THEN "lock" ELSE "exit",
                                    i |-> startIndex(i, n),
                                    startIndex |-> startIndex(i, n),
                                    endIndex |-> endIndex(i, n)],
                    !.next = i + 1]
           ELSE driver' = [driver EXCEPT !.pc = "join", !.next = 0]
    /\ DemoFrame

\* a thread that takes the mutex whether or not it is free
Lock_Unguarded(t) ==
    /\ driver.kind = "pthread"
    /\ driver.threads[t].pc = "lock"
    /\ driver' = [driver EXCEPT !.mutex = {t}, !.threads[t].pc = "check"]
    /\ DemoFrame

\* updateParticles: pthread_mutex_lock(data->mutex)
Lock(t) ==
    /\ driver.threads[t].pc = "lock"
    /\ driver.mutex = {}
    /\ driver' = [driver EXCEPT !.mutex = {t}, !.threads[t].pc = "check"]
    /\ DemoFrame

\* updateParticles: the test of the slot and the call of Particle_Integrate,
\* which reads the particle and, through the bungee, the particle it was
\* paired with
CheckAndIntegrate(t) ==
    /\ driver.threads[t].pc = "check"
    /\ LET i == driver.threads[t].i
           slot == driver.slots[i]
       IN  IF slot.active /\ slot.particle # << >>
           THEN driver' = [driver EXCEPT
                    !.threads[t].pc = "inside",
                    !.integrated[i] = @ + 1,
                    !.stale = @ \/ driver.destroyed[slot.particle[1]] > 0
                                \/ driver.destroyed[slot.pairIndex] > 0]
           ELSE driver' = [driver EXCEPT !.threads[t].pc = "unlock"]
    /\ DemoFrame

\* updateParticles: Particle_Integrate has returned; the position is read and,
\* when it is outside the window, the pair of the particle is destroyed first
Leave(t, outside) ==
    /\ driver.threads[t].pc = "inside"
    /\ LET i == driver.threads[t].i
           pairIdx == driver.slots[i].pairIndex
           read == [driver EXCEPT
                       !.stale = @ \/ driver.destroyed[driver.slots[i].particle[1]] > 0]
       IN  IF outside
           THEN /\ i \in Leavers
                /\ driver' = [(IF pairIdx >= 0 /\ read.slots[pairIdx].active
                               THEN Destroyed(read, pairIdx)
                               ELSE read) EXCEPT !.threads[t].pc = "destroy"]
           ELSE driver' = [read EXCEPT !.threads[t].pc = "unlock"]
    /\ DemoFrame

\* updateParticles: then the particle itself is destroyed and its slot emptied
DestroySelf(t) ==
    /\ driver.threads[t].pc = "destroy"
    /\ driver' = [Destroyed(driver, driver.threads[t].i) EXCEPT !.threads[t].pc = "unlock"]
    /\ DemoFrame

\* updateParticles: pthread_mutex_unlock(data->mutex), i++ and the loop test
Unlock(t) ==
    /\ driver.threads[t].pc = "unlock"
    /\ driver' = [driver EXCEPT
            !.mutex = {},
            !.threads[t].i = @ + 1,
            !.threads[t].pc = IF driver.threads[t].i + 1 < driver.threads[t].endIndex
                              THEN "lock" ELSE "exit"]
    /\ DemoFrame

\* one pass of the joining loop: pthread_join returns once the thread has
\* finished; after the last one updateParticlesThreaded returns
Join ==
    /\ driver.pc = "join"
    /\ IF driver.next < threadsToUse(driver.particleCount)
       THEN /\ driver.threads[driver.next].pc = "exit"
            /\ driver' = [driver EXCEPT !.threads[driver.next].pc = "joined",
                                        !.next = @ + 1]
       ELSE driver' = [driver EXCEPT !.pc = "render"]
    /\ DemoFrame

\* the positions a rendering pass reads: those of the active slots and of
\* their active pairs
Drawn(d) ==
    {k \in 0..(d.particleCount - 1) : d.slots[k].active}

\* main: the frame is rendered from the active slots, under the mutex slot by
\* slot; then the next frame, or the end of the loop
Render ==
    /\ driver.pc = "render"
    /\ driver.mutex = {}
    /\ driver.frame < MaxDemoFrames \/ ~driver.running
    /\ driver' = [driver EXCEPT
            !.stale = @ \/ \E k \in Drawn(driver) :
                              \/ driver.slots[k].particle = << >>
                              \/ driver.destroyed[k] > 0,
            !.pc = IF driver.running THEN "poll" ELSE "cleanup",
            !.frame = IF driver.running THEN @ + 1 ELSE @,
            !.threads = [t \in 0..(MAX_THREADS - 1) |-> Unborn],
            !.integrated = [k \in DOMAIN driver.integrated |-> 0]]
    /\ DemoFrame

\* cleanupParticles(particles, count), slot by slot from `from`
RECURSIVE Cleaned(_, _)
Cleaned(d, from) ==
    IF from >= d.particleCount THEN d
    ELSE Cleaned(IF d.slots[from].active /\ d.slots[from].particle # << >>
                 THEN Destroyed(d, from) ELSE d, from + 1)

cleanupParticles ==
    /\ driver.pc = "cleanup"
    /\ driver.mutex = {}
    /\ driver' = [Cleaned(driver, 0) EXCEPT !.pc = "done"]
    /\ DemoFrame

InitDemo ==
    /\ build = "particle_h"
    /\ particles = EmptyHeap
    /\ birth = particles
    /\ blocks = [b \in BlockRefs |-> Unbuilt]
    /\ particleErrno = "SUCCESS"
    /\ ret = NoRet
    /\ calls = << >>
    /\ ops = 0
    /\ driver = DemoStart(2 * MaxPairs)

NextDemo ==
    \/ \E ok \in BOOLEAN : createParticlePair(ok)
    \/ Quit
    \/ Update
    \/ Spawn
    \/ \E t \in 0..(MAX_THREADS - 1) : Lock(t)
    \/ \E t \in 0..(MAX_THREADS - 1) : CheckAndIntegrate(t)
    \/ \E t \in 0..(MAX_THREADS - 1), outside \in BOOLEAN : Leave(t, outside)
    \/ \E t \in 0..(MAX_THREADS - 1) : DestroySelf(t)
    \/ \E t \in 0..(MAX_THREADS - 1) : Unlock(t)
    \/ Join
    \/ Render
    \/ cleanupParticles

SpecDemo == InitDemo /\ [][NextDemo]_vars

\* ---------------------------------- the distribution of a frame on its own
\* updateParticlesThreaded on every particle count up to a bound that needs
\* more than MAX_THREADS threads. No particle leaves the window here, so the
\* threads only integrate slots of their own ranges, one at a time under the
\* mutex, and what a thread has done is accounted for when it is joined.

MaxParticleCount == 200

ParticleCounts == 0..MaxParticleCount

\* updateParticles, the whole thread function of thread t: every slot of the
\* range is taken under the mutex and integrated when it is active
updateParticles(d, t) ==
    [d EXCEPT
        !.threads[t].pc = "exit",
        !.threads[t].i = d.threads[t].endIndex,
        !.integrated = [k \in DOMAIN @ |->
                           IF /\ k >= d.threads[t].i
                              /\ k < d.threads[t].endIndex
                              /\ d.slots[k].active
                              /\ d.slots[k].particle # << >>
                           THEN @[k] + 1 ELSE @[k]]]

\* one pass of the joining loop: pthread_join returns when the thread has run
\* to its end; after the last one updateParticlesThreaded returns
JoinFinished ==
    /\ driver.pc = "join"
    /\ IF driver.next < threadsToUse(driver.particleCount)
       THEN /\ driver.threads[driver.next].pc = "lock"
            /\ driver' = [updateParticles(driver, driver.next) EXCEPT
                              !.threads[driver.next].pc = "joined",
                              !.next = @ + 1]
       ELSE driver' = [driver EXCEPT !.pc = "render"]
    /\ DemoFrame

\* the demo after particleCount / 2 pairs were created, at the top of a frame
InitPartition ==
    /\ build = "particle_h"
    /\ particles = EmptyHeap
    /\ birth = particles
    /\ blocks = [b \in BlockRefs |-> Unbuilt]
    /\ particleErrno = "SUCCESS"
    /\ ret = NoRet
    /\ calls = << >>
    /\ ops = 0
    /\ \E n \in ParticleCounts :
           driver = [DemoStart(MaxParticleCount + 1) EXCEPT
                        !.particleCount = n,
                        !.slots = [k \in DOMAIN @ |->
                                      IF k < 2 * (n \div 2)
                                      THEN [particle |-> <<k>>, active |-> TRUE,
                                            pairIndex |-> IF k % 2 = 0 THEN k + 1 ELSE k - 1]
                                      ELSE NoInstance]]

NextPartition ==
    \/ Update
    \/ Spawn
    \/ JoinFinished

SpecPartition == InitPartition /\ [][NextPartition]_vars







\* ------------------------------------------------------------- properties

\* the window test, written out from the (sub-)step's clock t
Due(generator, t) ==
    generator.isActive /\ generator.startTime <= t /\ t <= generator.endTime

\* the sum of a sequence of vectors
RECURSIVE SumVec(_)
SumVec(vs) ==
    IF vs = << >> THEN nullVectorDef
    ELSE vecAdd(SumVec(SubSeq(vs, 1, Len(vs) - 1)), vs[Len(vs)])

\* the live registry indices of a particle that hold a spring
SpringRegs(particle) ==
    {i \in 1..particle.forceCount : particle.forceRegistry[i].identity = SPRING}

\* C1: in every (sub-)step of every integrator the law of each registration
\* that is active and in-window is evaluated exactly once and its result
\* added exactly once; a registration that is not contributes nothing.
C1_OneEvaluationPerRegistration ==
    \A c \in DOMAIN calls : \A k \in DOMAIN calls[c].steps :
        \A i \in DOMAIN calls[c].steps[k].terms :
            LET step == calls[c].steps[k]
                once == IF Due(calls[c].before.forceRegistry[i], step.t) THEN 1 ELSE 0
            IN  step.evals[i] = once /\ Len(step.terms[i]) = once

\* C2: a registration contributes in a (sub-)step exactly when it is active
\* and startTime <= time <= endTime at the particle's clock of that (sub-)step,
\* and the clock a (sub-)step tests is the one the previous (sub-)steps of the
\* call have advanced.
C2_ContributesIffInWindow ==
    \A c \in DOMAIN calls : \A k \in DOMAIN calls[c].steps :
        LET step == calls[c].steps[k]
            reg == calls[c].before.forceRegistry
        IN  /\ Contributors(step) = {i \in DOMAIN step.terms : Due(reg[i], step.t)}
            /\ step.t >= calls[c].before.time
            /\ step.t <= calls[c].after.time
            /\ k > 1 => step.t >= calls[c].steps[k - 1].t
            /\ k = 1 => step.t = calls[c].before.time

\* C2 happens: within one call a registration that contributed to an earlier
\* (sub-)step has stopped, and another that had not has started.
C2_WindowChangesMidCall ==
    \E c \in DOMAIN calls : \E k, l \in DOMAIN calls[c].steps :
        \E i, j \in DOMAIN calls[c].steps[k].terms :
            /\ k < l
            /\ i \in Contributors(calls[c].steps[k])
            /\ i \notin Contributors(calls[c].steps[l])
            /\ j \notin Contributors(calls[c].steps[k])
            /\ j \in Contributors(calls[c].steps[l])

\* C3: single-step build, two particles sharing one spring block, each
\* integrated once: over the two steps the spring law is evaluated once, and
\* what the second step added for the spring is the negation of what the
\* first step added for it.
C3_SpringOncePerPair ==
    ( /\ build = "particle_h"
      /\ Len(calls) = 2
      /\ calls[1].p # calls[2].p
      /\ Cardinality(SpringRegs(calls[1].before)) = 1
      /\ Cardinality(SpringRegs(calls[2].before)) = 1 )
    => LET i == CHOOSE x \in SpringRegs(calls[1].before) : TRUE
           j == CHOOSE x \in SpringRegs(calls[2].before) : TRUE
           first == calls[1].steps[1]
           second == calls[2].steps[1]
       IN  /\ first.evals[i] + second.evals[j] = 1
           /\ SumVec(second.terms[j]) = invert(SumVec(first.terms[i]))

\* the durations of the first n successful calls on particle p, summed
RECURSIVE Elapsed(_, _)
Elapsed(p, n) ==
    IF n = 0 THEN 0
    ELSE Elapsed(p, n - 1) + (IF calls[n].p = p THEN calls[n].d ELSE 0)

StaticAtBirth(p) ==
    Particle_IsStatic(birth[p]) /\ birth[p].acceleration = nullVectorDef

\* the position p would have after drifting with its construction velocity
\* for the time integrated so far
Drifted(p) ==
    addScaled(birth[p].position, birth[p].velocity, R(UNIT),
              R(particles[p].time - birth[p].time))

C6_RejectedIntegrateChangesNothing ==
    [][ (ret' # ret /\ ret'.op = "Integrate" /\ (ret'.p = NULL \/ ret'.args[1] <= 0))
        => /\ ret'.code = IF ret'.p = NULL THEN "INVALID_PARAM" ELSE "INVALID_DURATION"
           /\ UNCHANGED <<particles, blocks, particleErrno, calls>> ]_vars

\* C6 happens: a call with duration 0 on a particle with registrations, after
\* a successful call, was rejected.
C6_ZeroDurationRejected ==
    /\ ret.op = "Integrate"
    /\ ret.code = "INVALID_DURATION"
    /\ ret.args = <<0>>
    /\ particles[ret.p].forceCount > 0
    /\ calls # << >>

\* the call Particle_Create made last, by its arguments, was refused with errno
Refused(errno) ==
    /\ ret.p = NULL
    /\ particleErrno = errno
    /\ particles = ret.heap

\* the call Particle_Create made last returned a fresh particle built from
\* mass and startTime, and touched no other particle
Built(mass, startTime) ==
    /\ ret.p # NULL
    /\ ret.heap[ret.p] = Unallocated
    /\ \A q \in PIDs \ {ret.p} : particles[q] = ret.heap[q]
    /\ particles[ret.p].forceCount = 0
    /\ particles[ret.p].forceCapacity = 8
    /\ particles[ret.p].resultantForce = nullVectorDef
    /\ particles[ret.p].time = startTime
    /\ IF mass = Inf THEN particles[ret.p].inverseMass.n = 0
       ELSE particles[ret.p].inverseMass.n * mass = particles[ret.p].inverseMass.d * UNIT

\* C7 as stated: Particle_Create returns NULL and signals InvalidMass for
\* mass <= 0, else InvalidDamping for damping outside [0,1], else InvalidTime
\* for startTime < 0; otherwise it returns a particle with forceCount 0,
\* forceCapacity 8, zero resultant force, time = startTime, inverseMass = 1/mass.
C7_CreateValidates ==
    ret.op = "Create" =>
        LET mass == ret.args[1]
            damping == ret.args[2]
            startTime == ret.args[3]
        IN  IF mass <= 0 THEN Refused("INVALID_MASS")
            ELSE IF damping < 0 \/ damping > UNIT THEN Refused("INVALID_DAMPING")
            ELSE IF startTime < 0 THEN Refused("INVALID_TIME")
            ELSE Built(mass, startTime)

\* C7 amended: as stated, except that with valid arguments Particle_Create
\* returns NULL and signals OutOfMemory when an allocation fails, and returns
\* the particle described only when both allocations succeed.
C7_CreateValidatesOrRunsOut ==
    ret.op = "Create" =>
        LET mass == ret.args[1]
            damping == ret.args[2]
            startTime == ret.args[3]
            alloc == ret.args[4]
        IN  IF mass <= 0 THEN Refused("INVALID_MASS")
            ELSE IF damping < 0 \/ damping > UNIT THEN Refused("INVALID_DAMPING")
            ELSE IF startTime < 0 THEN Refused("INVALID_TIME")
            ELSE IF ~alloc THEN Refused("MEMORY")
            ELSE Built(mass, startTime)

\* C7 happens: a second particle, of mass 2, has been created
C7_SecondParticleCreated ==
    /\ ret.op = "Create"
    /\ ret.p # NULL
    /\ ret.args[1] = 2 * UNIT
    /\ ops = 2

\* the kinds the ForceIdentifier enumeration declares
Kinds == {GRAV, DRAG, SPRING, ANCHORED_SPRING, BUNGEE, ANCHORED_BUNGEE}

\* C8: Particle_AddForce returns InvalidParam for a null particle or law,
\* else InvalidTime for a negative startTime or endTime, else InvalidForceLaw
\* for an identity that is no declared kind, and OutOfMemory when its
\* arguments are accepted, the registry is full and the growth fails; a call
\* that fails leaves every particle's forceCount, forceCapacity and
\* registrations as they were.
C8_AddForceRejects ==
    ret.op = "AddForce" =>
        LET p == ret.p
            force == ret.args[1]
            startTime == ret.args[2]
            endTime == ret.args[3]
            identifier == ret.args[5]
            alloc == ret.args[6]
            present == p # NULL /\ force # NULL
            timed == startTime >= 0 /\ endTime >= 0
        IN  /\ ~present => ret.code = "INVALID_PARAM"
            /\ (present /\ ~timed) => ret.code = "INVALID_TIME"
            /\ (present /\ timed /\ identifier \notin Kinds) => ret.code = "INVALID_FORCE_ID"
            /\ ( /\ present /\ timed /\ ret.code # "INVALID_FORCE_ID"
                 /\ ret.heap[p].forceCount = ret.heap[p].forceCapacity
                 /\ ~alloc ) => ret.code = "MEMORY"
            /\ ret.code \in {"SUCCESS", "INVALID_PARAM", "INVALID_TIME",
                             "INVALID_FORCE_ID", "MEMORY"}
            /\ ret.code = "SUCCESS" =>
                  present /\ timed /\ identifier \in Kinds
            /\ ret.code # "SUCCESS" => particles = ret.heap

\* C8 happens: after a successful registration filled the registry, a
\* Particle_AddForce whose growth failed returned OutOfMemory
C8_GrowthFailed ==
    /\ ret.op = "AddForce"
    /\ ret.code = "MEMORY"
    /\ ret.heap[ret.p].forceCount = 8
    /\ ops = 2

\* c is 8 * 2^k for some k >= 0
RECURSIVE IsCapacity(_)
IsCapacity(c) == c = 8 \/ (c > 8 /\ c % 2 = 0 /\ IsCapacity(c \div 2))

\* C9: after any sequence of registration and clearing calls every particle
\* has 0 <= forceCount <= forceCapacity and forceCapacity = 8 * 2^k; a
\* successful Particle_AddForce adds one to forceCount, leaves the live
\* registrations as they were, puts the new one (active, with the law,
\* identity, window and parameter reference given) after them, and doubles
\* forceCapacity exactly when forceCount equalled it before the call.
C9_RegistryShape ==
    /\ \A p \in PIDs :
          /\ 0 <= particles[p].forceCount
          /\ particles[p].forceCount <= particles[p].forceCapacity
          /\ IsCapacity(particles[p].forceCapacity)
    /\ (ret.op = "AddForce" /\ ret.code = "SUCCESS") =>
          LET old == ret.heap[ret.p]
              new == particles[ret.p]
          IN  /\ new.forceCount = old.forceCount + 1
              /\ SubSeq(new.forceRegistry, 1, old.forceCount)
                    = SubSeq(old.forceRegistry, 1, old.forceCount)
              /\ new.forceRegistry[new.forceCount] =
                    [function   |-> ret.args[1],
                     identity   |-> ret.args[5],
                     parameters |-> ret.args[4],
                     startTime  |-> ret.args[2],
                     endTime    |-> ret.args[3],
                     isActive   |-> TRUE]
              /\ new.forceCapacity = IF old.forceCount = old.forceCapacity
                                     THEN 2 * old.forceCapacity
                                     ELSE old.forceCapacity
              /\ \A q \in PIDs \ {ret.p} : particles[q] = ret.heap[q]

\* C9 happens: a Particle_AddForce on a registry of 16 live registrations in
\* 16 slots succeeded, the second growth of that registry
C9_SecondGrowth ==
    /\ ret.op = "AddForce"
    /\ ret.code = "SUCCESS"
    /\ ret.heap[ret.p].forceCount = 16
    /\ ret.heap[ret.p].forceCapacity = 16
    /\ particles[ret.p].forceCapacity = 32

\* the registrations the last call added to particle q
Added(q) == particles[q].forceCount - ret.heap[q].forceCount

\* C10: Particle_AddSpring and Particle_AddElasticBungee return InvalidParam
\* and register nothing when a particle or the parameter block is null;
\* otherwise, when they return success, they have added one registration to
\* each of the two particles, both referring to the parameter block given.
C10_BothOrNeither ==
    ret.op \in {"AddSpring", "AddElasticBungee"} =>
        LET a == ret.p
            b == ret.args[1]
            prm == ret.args[2]
        IN  IF a = NULL \/ b = NULL \/ prm = NULL
            THEN ret.code = "INVALID_PARAM" /\ particles = ret.heap
            ELSE ret.code = "SUCCESS" =>
                    /\ Added(a) = 1
                    /\ Added(b) = 1
                    /\ particles[a].forceRegistry[particles[a].forceCount].parameters = prm
                    /\ particles[b].forceRegistry[particles[b].forceCount].parameters = prm

\* C11: Particle_AddAnchoredSpring and Particle_AddAnchoredBungee with a
\* particle, a parameter block and a window that are all valid (and room in
\* the registry, or a growth that succeeds) return success and append exactly
\* one registration carrying that block and window.
C11_AnchoredRegisters ==
    ( /\ ret.op \in {"AddAnchoredSpring", "AddAnchoredBungee"}
      /\ ret.p # NULL
      /\ ret.args[1] # NULL
      /\ ret.args[2] >= 0
      /\ ret.args[3] >= 0
      /\ (ret.args[4] \/ ret.heap[ret.p].forceCount < ret.heap[ret.p].forceCapacity) )
    => /\ ret.code = "SUCCESS"
       /\ Added(ret.p) = 1
       /\ particles[ret.p].forceRegistry[particles[ret.p].forceCount].parameters = ret.args[1]
       /\ particles[ret.p].forceRegistry[particles[ret.p].forceCount].startTime = ret.args[2]
       /\ particles[ret.p].forceRegistry[particles[ret.p].forceCount].endTime = ret.args[3]

\* the builders of the spring family and what the last call handed them
Builders == {"buildSpringParameters", "buildElasticBungeeParameters",
             "buildAnchoredSpringParameters", "buildAnchoredBungeeParameters"}

TwoEnded == ret.op \in {"buildSpringParameters", "buildElasticBungeeParameters"}

Supplied == [ends |-> <<ret.args[1], ret.args[2]>>, springConstant |-> ret.args[3],
             restLength |-> ret.args[4], dampingCoeff |-> ret.args[5],
             block |-> ret.args[6]]

Acceptable ==
    /\ Supplied.block # NULL
    /\ TwoEnded => (Supplied.ends[1] # NULL /\ Supplied.ends[2] # NULL)
    /\ Supplied.springConstant >= 0
    /\ Supplied.restLength >= 0
    /\ Supplied.dampingCoeff >= 0

\* the error codes the refused inputs call for
Called ==
    {code \in {"INVALID_PARAM", "NULL_SPRING_OTHER", "INVALID_SPRING_CONSTANT",
               "INVALID_REST_LENGTH", "INVALID_DAMPING_COEFF"} :
        \/ code = "INVALID_PARAM" /\ Supplied.block = NULL
        \/ code = "NULL_SPRING_OTHER" /\ TwoEnded
              /\ (Supplied.ends[1] = NULL \/ Supplied.ends[2] = NULL)
        \/ code = "INVALID_SPRING_CONSTANT" /\ Supplied.springConstant < 0
        \/ code = "INVALID_REST_LENGTH" /\ Supplied.restLength < 0
        \/ code = "INVALID_DAMPING_COEFF" /\ Supplied.dampingCoeff < 0}

Stored ==
    LET block == blocks[Supplied.block]
    IN  /\ block # Unbuilt
        /\ block.springConstant = Supplied.springConstant
        /\ block.restLength = Supplied.restLength
        /\ block.dampingCoeff = Supplied.dampingCoeff
        /\ IF TwoEnded
           THEN block.particleA = Supplied.ends[1] /\ block.particleB = Supplied.ends[2]
           ELSE block.anchor = Supplied.ends[1]

\* C12: each builder of the spring family returns success and stores every
\* supplied field in the block exactly when the block and the required
\* particles are non-null and spring constant, rest length and damping
\* coefficient are all >= 0; otherwise it returns the error of a refused input
\* and leaves every block as it was.
C12_BuildersValidateAndStore ==
    ret.op \in Builders
    => IF Acceptable
       THEN ret.code = "SUCCESS" /\ Stored
       ELSE ret.code \in Called /\ blocks = ret.held

\* the (sub-)steps of the last successful integration
LastSteps == calls[Len(calls)].steps

\* C13: Particle_ClearForces zeroes the resultant force and forceCount of its
\* particle and changes nothing else, neither in that particle, nor in another
\* one, nor in a parameter block; and an integration of a particle that was
\* cleared and has gained no registration since evaluates no force law.
C13_ClearForcesOnlyEmpties ==
    /\ (ret.op = "ClearForces" /\ ret.p # NULL)
       => /\ particles[ret.p].resultantForce = nullVectorDef
          /\ particles[ret.p].forceCount = 0
          /\ particles = [ret.heap EXCEPT ![ret.p].resultantForce = nullVectorDef,
                                          ![ret.p].forceCount = 0]
          /\ blocks = ret.held
    /\ (ret.op = "Integrate" /\ ret.code = "SUCCESS" /\ ret.p \in ret.cleared)
       => \A k \in DOMAIN LastSteps :
              /\ Contributors(LastSteps[k]) = {}
              /\ \A i \in DOMAIN LastSteps[k].evals : LastSteps[k].evals[i] = 0
              /\ LastSteps[k].added = nullVectorDef

\* C13 happens: a particle whose laws an integration evaluated is cleared and
\* integrated again.
C13_IntegratedAfterClear ==
    /\ Len(calls) = 2
    /\ ret.op = "Integrate"
    /\ ret.p \in ret.cleared
    /\ calls[1].p = ret.p
    /\ \E k \in DOMAIN calls[1].steps : Contributors(calls[1].steps[k]) # {}
    /\ particles[ret.p].forceRegistry # << >>

\* the other participant of the pair
OtherEnd(p) == IF p = "p1" THEN "p2" ELSE "p1"

TwoBody(e) == e.fn \in {"Particle_SpringForce", "Particle_ElasticBungeeForce"}

BungeeLaw(e) == e.fn \in {"Particle_ElasticBungeeForce", "Particle_AnchoredBungeeForce"}

SpringLaw(e) == e.fn \in {"Particle_SpringForce", "Particle_AnchoredSpringForce"}

\* where the far end of an evaluated law is and how it moves
FarEnd(e) ==
    IF TwoBody(e) THEN particles[OtherEnd(e.p)].position ELSE blocks[e.prm].anchor

FarVelocity(e) ==
    IF TwoBody(e) THEN particles[OtherEnd(e.p)].velocity ELSE nullVectorDef

\* from the far end to the particle, and the particle's velocity relative to
\* the far end
Apart(e) == vecAdd(particles[e.p].position, invert(FarEnd(e)))

Relative(e) == vecAdd(particles[e.p].velocity, invert(FarVelocity(e)))

\* C14: the elastic-bungee and the anchored-bungee law return the zero vector
\* whenever the separation is at most the rest length, zero separation
\* included, whatever the velocities, the spring constant and the damping
\* coefficient.
C14_SlackBungeeIsZero ==
    \A i \in DOMAIN calls :
        (BungeeLaw(calls[i]) /\ magnitude(Apart(calls[i])) <= blocks[calls[i].prm].restLength)
        => calls[i].force = nullVectorDef

\* C14 happens: a bungee with positive constants is evaluated exactly at its
\* rest length while the ends move relative to each other along it.
C14_MovingAtRestLength ==
    \E i \in DOMAIN calls :
        /\ BungeeLaw(calls[i])
        /\ magnitude(Apart(calls[i])) = blocks[calls[i].prm].restLength
        /\ blocks[calls[i].prm].restLength > 0
        /\ blocks[calls[i].prm].springConstant > 0
        /\ blocks[calls[i].prm].dampingCoeff > 0
        /\ dotProduct(Apart(calls[i]), Relative(calls[i])) # 0

DistinctIDs == particles["p1"].uniqueID # particles["p2"].uniqueID

\* C15: for a positive spring constant a bungee law evaluated at a separation
\* strictly greater than the rest length returns a non-zero force that points
\* from the particle toward the other end, for all velocities and all damping
\* coefficients >= 0 (stated here for participants that carry different
\* uniqueIDs).
C15_StretchedBungeePulls ==
    \A i \in DOMAIN calls :
        ( /\ BungeeLaw(calls[i])
          /\ DistinctIDs
          /\ blocks[calls[i].prm].springConstant > 0
          /\ magnitude(Apart(calls[i])) > blocks[calls[i].prm].restLength )
        => /\ calls[i].force # nullVectorDef
           /\ dotProduct(calls[i].force, Apart(calls[i])) < 0

\* the force of an evaluation is the zero vector or points toward (sign -1) or
\* away from (sign 1) the far end, strictly so for a positive spring constant
Pointing(e, sign) ==
    LET along == sign * dotProduct(e.force, Apart(e))
    IN  IF blocks[e.prm].springConstant > 0 THEN along > 0 ELSE along >= 0

\* C16: with zero relative velocity the spring law, two-body and anchored,
\* returns the zero vector at the rest length, a force toward the other end
\* beyond it and a force away from the other end at a positive separation
\* below it, of magnitude springConstant * |separation - restLength|.
C16_SpringRestoresRestLength ==
    \A i \in DOMAIN calls :
        (SpringLaw(calls[i]) /\ Relative(calls[i]) = nullVectorDef)
        => LET e == calls[i]
               separation == magnitude(Apart(e))
               restLength == blocks[e.prm].restLength
           IN  /\ separation = restLength => e.force = nullVectorDef
               /\ separation > restLength => Pointing(e, -1)
               /\ (0 < separation /\ separation < restLength) => Pointing(e, 1)
               /\ magnitude(e.force)
                      = RMul(blocks[e.prm].springConstant, Abs(separation - restLength))

\* C17: the gravity law and the drag law both return the zero vector on a
\* static particle, whatever its velocity and the drag coefficients; on a
\* particle that is not static gravity returns (0, g * m, 0) with g = -9.81
\* and m the particle's mass.
C17_StaticFeelsNoGravityNoDrag ==
    \A i \in DOMAIN calls :
        LET e == calls[i]
        IN  /\ (e.fn \in {"Particle_GravityForce", "Particle_DragForce"}
                  /\ Particle_IsStatic(particles[e.p]))
               => e.force = nullVectorDef
            /\ (e.fn = "Particle_GravityForce" /\ ~Particle_IsStatic(particles[e.p]))
               => e.force = vectorDef(0, RMul(ACC_DUE_TO_GRAV,
                                               Particle_GetMass(particles[e.p])), 0)

\* the speed a drag evaluation was made at, and the coefficients it was given
Speed(e) == magnitude(particles[e.p].velocity)

\* k1 * |v| + k2 * |v|^2
DragFormula(e) ==
    RAdd(RMul(blocks[e.prm].linear, Speed(e)),
         RMul(RMul(blocks[e.prm].quadratic, Speed(e)), Speed(e)))

\* force = -lambda * v with lambda >= 0: no component across v, none along it
Opposite(force, v) ==
    /\ force.x * v.y = force.y * v.x
    /\ force.y * v.z = force.z * v.y
    /\ force.z * v.x = force.x * v.z
    /\ force.x * v.x <= 0 /\ force.y * v.y <= 0 /\ force.z * v.z <= 0

DragCalls == {i \in DOMAIN calls : calls[i].fn = "Particle_DragForce"}

\* C18: the drag law returns the zero vector below the speed 0.01 and
\* otherwise a force exactly opposite to the velocity of magnitude
\* k1 * |v| + k2 * |v|^2; with the same coefficients the magnitude returned at
\* a higher speed is never smaller, across the threshold as well.
C18_DragOpposesAndGrows ==
    /\ \A i \in DragCalls :
           IF Speed(calls[i]) < DRAG_DEADZONE
           THEN calls[i].force = nullVectorDef
           ELSE /\ Opposite(calls[i].force, particles[calls[i].p].velocity)
                /\ magnitude(calls[i].force) = DragFormula(calls[i])
    /\ \A i, j \in DragCalls :
           Speed(calls[i]) <= Speed(calls[j])
           => magnitude(calls[i].force) <= magnitude(calls[j].force)

\* C18 happens: with coefficients that are not zero the law is evaluated once
\* below the threshold at a speed that is not zero and once above it.
C18_BelowAndAboveThreshold ==
    \E i, j \in DragCalls :
        /\ blocks["drag"].linear > 0
        /\ blocks["drag"].quadratic > 0
        /\ 0 < Speed(calls[i]) /\ Speed(calls[i]) < DRAG_DEADZONE
        /\ Speed(calls[j]) > DRAG_DEADZONE
        /\ calls[j].force # nullVectorDef

\* C19: every evaluation of a force law on a validated block returns a defined
\* vector; in particular the spring and the anchored-spring law return no NaN
\* when the particle sits on the other participant or on the anchor (stated
\* here for participants that carry different uniqueIDs).
C19_LawsAreTotal ==
    \A i \in DOMAIN calls :
        DistinctIDs => ~IsNaNVec(calls[i].force)

\* what the law must return for the particle of an evaluation when it takes
\* the other participant as the far end
AgainstOther(e) ==
    LET d == Apart(e)
        unit == normalize(d)
        stretched == RGt(RSub(magnitude(d), blocks[e.prm].restLength), 0)
    IN  IF e.fn = "Particle_ElasticBungeeForce" /\ ~stretched
        THEN nullVectorDef
        ELSE scale(unit, R(SpringMagnitude(blocks[e.prm], d, Relative(e))))

\* C20: for two distinct particles from Particle_Create joined by a two-body
\* spring or bungee, the law evaluated for either of them measures separation
\* and relative velocity against the other participant, never against the
\* queried particle itself.
C20_OtherEndIsTheOtherParticle ==
    \A i \in DOMAIN calls :
        TwoBody(calls[i])
        => /\ SpringOther(particles, blocks[calls[i].prm], calls[i].p) = OtherEnd(calls[i].p)
           /\ calls[i].force = AgainstOther(calls[i])

\* nothing contributed to any (sub-)step of a call
Forceless(call) == \A k \in DOMAIN call.steps : Contributors(call.steps[k]) = {}

\* C21 as stated: with damping = 1 and no registration contributing, a
\* successful Particle_Integrate leaves the velocity as it was, for every
\* duration and every call of a sequence.
C21_ForcelessKeepsVelocity ==
    \A c \in DOMAIN calls :
        (calls[c].before.damping = UNIT /\ Forceless(calls[c]))
        => calls[c].after.velocity = calls[c].before.velocity

\* C21 amended: the same for a particle whose acceleration is zero at the
\* call; the sub-stepped Euler integrator and the particle.h integrator add
\* the acceleration the caller left in the particle to the velocity.
C21_ForcelessUnacceleratedKeepsVelocity ==
    \A c \in DOMAIN calls :
        ( /\ calls[c].before.damping = UNIT
          /\ Forceless(calls[c])
          /\ calls[c].before.acceleration = nullVectorDef )
        => calls[c].after.velocity = calls[c].before.velocity

\* C21 happens: a moving particle with damping 1, zero acceleration and a
\* registration outside its window is integrated twice over different durations.
C21_TwoForcelessCalls ==
    /\ Len(calls) = 2
    /\ calls[1].d # calls[2].d
    /\ \A c \in DOMAIN calls :
           /\ calls[c].before.damping = UNIT
           /\ calls[c].before.acceleration = nullVectorDef
           /\ calls[c].before.velocity # nullVectorDef
           /\ calls[c].before.forceCount > 0
           /\ Forceless(calls[c])

\* C22: a successful Particle_Integrate returns with the particle's
\* acceleration at the value it had when the call was made, for a static
\* particle as for any other.
C22_AccelerationLeftAlone ==
    \A c \in DOMAIN calls : calls[c].after.acceleration = calls[c].before.acceleration

\* everything a (sub-)step added, registration after registration
RECURSIVE AddedUpTo(_, _)
AddedUpTo(step, n) ==
    IF n = 0 THEN nullVectorDef
    ELSE vecAdd(AddedUpTo(step, n - 1), SumVec(step.terms[n]))

AllDue(call) ==
    /\ call.before.forceCount > 0
    /\ \A i \in 1..call.before.forceCount :
           Due(call.before.forceRegistry[i], call.before.time)

\* F / m of a particle under its gravity registrations, and the position the
\* particle of a call drifts to at its velocity
Pull(call) == call.before.forceCount * ACC_DUE_TO_GRAV

Coasted(call) ==
    vecAdd(call.before.position, scale(call.before.velocity, R(call.d)))

\* equal up to what the truncations of the four samples and of their weighted
\* sums can add up to on the grid (0.008)
Near(a, b) == Abs(a - b) <= 8

\* C25: under the RK4 integrator one successful call of duration d on a
\* particle that is not static gives, with no force contributing,
\* velocity' = v and position' = p + v * d, and under the constant force F of
\* its gravity registrations velocity' = v + (F/m) * d and
\* position' = p + v * d + (F/m) * d^2 / 2, up to the truncation of the grid.
C25_RK4ConstantForce ==
    build = "rk4" =>
        \A c \in DOMAIN calls :
            LET call == calls[c]
            IN  ~Particle_IsStatic(call.before) =>
                    /\ Forceless(call) =>
                           /\ call.after.velocity = call.before.velocity
                           /\ call.after.position = Coasted(call)
                    /\ AllDue(call) =>
                           /\ call.after.velocity.x = call.before.velocity.x
                           /\ call.after.velocity.z = call.before.velocity.z
                           /\ Near(call.after.velocity.y,
                                   call.before.velocity.y + RMul(Pull(call), call.d))
                           /\ call.after.position.x = Coasted(call).x
                           /\ call.after.position.z = Coasted(call).z
                           /\ Near(call.after.position.y,
                                   Coasted(call).y
                                       + TDiv(RMul(RMul(Pull(call), call.d), call.d), 2))

\* C25 happens: the RK4 integrator is called twice with different durations
\* on a moving particle under gravity.
C25_TwoRK4CallsUnderGravity ==
    /\ build = "rk4"
    /\ Len(calls) = 2
    /\ calls[1].d # calls[2].d
    /\ \A c \in DOMAIN calls :
           /\ AllDue(calls[c])
           /\ ~Particle_IsStatic(calls[c].before)
           /\ calls[c].before.velocity # nullVectorDef
           /\ calls[c].after.position.y # Coasted(calls[c]).y

\* the particles whose position and velocity the force laws registered on p
\* read: the other participant of each of p's spring-family registrations
ReadThrough(p) ==
    {OtherEnd(p) : i \in {j \in 1..particles[p].forceCount :
                             particles[p].forceRegistry[j].isActive
                             /\ particles[p].forceRegistry[j].identity \notin {GRAV, DRAG}}}

\* C24: in SimulateParticles, while one worker is inside Particle_Integrate on
\* a particle, no other worker's force evaluation reads that particle's
\* position or velocity.
C24_NoReadDuringIntegration ==
    driver.kind = "omp" =>
        \A w \in Workers : \A u \in Workers \ {w} :
            driver.pc[w] = "forces" /\ driver.pc[u] \in {"forces", "update"}
                => driver.at[u] \notin ReadThrough(driver.at[w])

\* C26: for a fixed state of two particles joined by a spring or a bungee, at
\* non-zero separation, the force the law returns for one participant is
\* exactly the negation of the force it returns for the other.
C26_EqualAndOpposite ==
    \A i \in DOMAIN calls :
        (TwoBody(calls[i]) /\ magnitude(Apart(calls[i])) > 0)
        => CallForce(calls[i].fn, particles, blocks, OtherEnd(calls[i].p),
                     calls[i].prm).force = invert(calls[i].force)

\* the last call was a successful Particle_Integrate of the integrator with
\* the shared cache, on a participant whose spring registration was inside its
\* window, and it found the cache flag set: it added the cached forceVal
TookCache ==
    /\ build = "particle_h"
    /\ ret.op = "Integrate" /\ ret.code = "SUCCESS" /\ ret.p # NULL
    /\ \E i \in 1..ret.heap[ret.p].forceCount :
           /\ ret.heap[ret.p].forceRegistry[i].identity = SPRING
           /\ InWindow(ret.heap[ret.p], ret.heap[ret.p].forceRegistry[i])
    /\ ret.held["spring"].notAlreadyUsed

\* C27: in the integrator that caches the opposite spring force in the shared
\* block, a particle never adds a cached forceVal that its own earlier
\* evaluation produced: whenever a call takes the cache, the call before it,
\* which filled the cache, was made on the other participant.
C27_CacheComesFromTheOtherEnd ==
    TookCache => /\ Len(calls) >= 2
                 /\ calls[Len(calls) - 1].p = OtherEnd(ret.p)

\* C28: Particle_GetLastError returns the value of the last-error slot and
\* resets it to success, so a second consecutive call returns success; right
\* after a Particle_Create that returned NULL it returns the error kind that
\* made the call fail, and right after a successful Particle_Create it returns
\* success.
C28_LastErrorIsReturnedAndCleared ==
    /\ ret.op = "GetLastError" => particleErrno = "SUCCESS"
    /\ \A i \in DOMAIN calls :
           /\ calls[i].lastError = calls[i].slot
           /\ calls[i].after.op = "GetLastError" => calls[i].lastError = "SUCCESS"
           /\ calls[i].after.op = "Create" =>
                  /\ calls[i].lastError = calls[i].after.code
                  /\ calls[i].after.p = NULL <=> calls[i].lastError # "SUCCESS"
                  /\ calls[i].after.p = NULL =>
                         calls[i].lastError \in {"INVALID_MASS", "INVALID_DAMPING",
                                                 "INVALID_TIME", "MEMORY"}

\* C28 happens: Particle_Create has returned NULL and Particle_GetLastError
\* has been called twice in a row after it.
C28_FailedCreateAskedTwice ==
    /\ Len(calls) = 2
    /\ calls[1].after.op = "Create" /\ calls[1].after.p = NULL
    /\ calls[2].after.op = "GetLastError"

\* the update threads that are inside Particle_Integrate
Inside == {t \in DOMAIN driver.threads : driver.threads[t].pc = "inside"}

\* a slot and the slot it is paired with are active together
PairedUp(k) == driver.slots[k].active = driver.slots[driver.slots[k].pairIndex].active

\* C29: in the threaded demo driver at most one thread is inside
\* Particle_Integrate at any time, no destroyed particle is integrated or has
\* its position read, no particle is destroyed twice, an active slot holds a
\* particle, and a particle that leaves the window is destroyed and
\* deactivated together with its pair inside one critical section: a pair is
\* half destroyed only while the destroying thread holds the mutex.
C29_OneIntegratorNoStaleParticle ==
    driver.kind = "pthread" =>
        /\ Cardinality(Inside) <= 1
        /\ ~driver.stale
        /\ \A k \in DOMAIN driver.slots :
               /\ driver.destroyed[k] <= 1
               /\ driver.slots[k].active =>
                      /\ driver.slots[k].particle # << >>
                      /\ driver.destroyed[driver.slots[k].particle[1]] = 0
               /\ k < driver.particleCount /\ ~PairedUp(k) =>
                      \E t \in DOMAIN driver.threads :
                          /\ driver.mutex = {t}
                          /\ driver.threads[t].pc = "destroy"
                          /\ driver.threads[t].i \in {k, driver.slots[k].pairIndex}

\* C29 happens: a particle has left the window and was destroyed with its
\* pair by the thread whose range ends with it, which has finished, while the
\* thread whose range begins with the pair's slot holds the mutex and is about
\* to test that slot, and a third thread waits for the mutex.
C29_PairDestroyedAcrossThreads ==
    /\ driver.kind = "pthread"
    /\ driver.destroyed[6] = 1 /\ driver.destroyed[7] = 1
    /\ \E t \in DOMAIN driver.threads :
           /\ driver.threads[t].pc = "check" /\ driver.threads[t].i = 7
           /\ \E u \in DOMAIN driver.threads \ {t} :
                  driver.threads[u].pc = "exit" /\ driver.threads[u].endIndex = 7
           /\ \E v \in DOMAIN driver.threads \ {t} : driver.threads[v].pc = "lock"

\* the threads updateParticlesThreaded has started in this frame
Started == {t \in DOMAIN driver.threads : driver.threads[t].pc # "unborn"}

\* the started threads whose range [startIndex, endIndex) holds index k
Owners(k) ==
    {t \in Started : driver.threads[t].startIndex <= k /\ k < driver.threads[t].endIndex}

\* C30: updateParticlesThreaded splits [0, particleCount) among the threads it
\* starts so that every index lies in exactly one thread's range, for every
\* particleCount; it starts at most MAX_THREADS = 16 threads and none when
\* particleCount is 0; no slot is integrated twice in a frame; and when the
\* frame is rendered every started thread has been joined and every slot that
\* is active has been integrated exactly once.
C30_RangesPartitionTheSlots ==
    driver.kind = "pthread" =>
        /\ Cardinality(Started) <= MAX_THREADS
        /\ driver.particleCount = 0 => Started = {}
        /\ \A k \in DOMAIN driver.slots : driver.integrated[k] <= 1
        /\ \A k \in 0..(driver.particleCount - 1) : Cardinality(Owners(k)) <= 1
        /\ driver.pc \in {"join", "render"} =>
               /\ Cardinality(Started) = threadsToUse(driver.particleCount)
               /\ \A k \in 0..(driver.particleCount - 1) : Cardinality(Owners(k)) = 1
               /\ \A t \in Started : driver.threads[t].endIndex <= driver.particleCount
        /\ driver.pc = "render" =>
               /\ \A t \in Started : driver.threads[t].pc = "joined"
               /\ \A k \in 0..(driver.particleCount - 1) :
                      driver.slots[k].active => driver.integrated[k] = 1

\* C30 happens: a frame with more particles than MAX_THREADS threads take ten
\* at a time, and not a multiple of their number, has been updated and all
\* MAX_THREADS threads were joined.
C30_SixteenThreadsJoined ==
    /\ driver.kind = "pthread"
    /\ driver.pc = "render"
    /\ driver.particleCount > MAX_THREADS * PARTICLES_PER_THREAD
    /\ driver.particleCount % MAX_THREADS # 0
    /\ Cardinality(Started) = MAX_THREADS
    /\ \A t \in Started : driver.threads[t].pc = "joined"

====
